---- MODULE Spec2Model ----
(***************************************************************************)
(* Co-Apply: the job-description parser (core/job_parser.py), the          *)
(* achievement-job matcher (analysis/matcher.py) and the ATS keyword       *)
(* analyzer (analysis/ats_analyzer.py).                                    *)
(*                                                                         *)
(* Text model.  A Python str is a sequence of lexemes.  A lexeme is a      *)
(* chunk of characters with a known length (LexLen), a lowercase form      *)
(* (Lower) and a known set of substrings (IsSubstring).  The lexemes are   *)
(* chosen so that every regular expression of the source either matches    *)
(* a whole lexeme or nothing inside it, and no match straddles two         *)
(* lexemes; offsets are therefore counted in lexemes, 0-based as in        *)
(* Python.  "\n" and " " are lexemes of their own, so line structure,      *)
(* strip() and the bullet regex are modelled position by position.         *)
(***************************************************************************)
EXTENDS Integers, Sequences, FiniteSets, TLC

\* Optional[str]: Python's None, and a str that is present.
None == [some |-> FALSE, val |-> <<>>]
Some(x) == [some |-> TRUE, val |-> x]

NL == "\n"
SP == " "

----------------------------------------------------------------------------
(* Bounds of the model *)

\* Longest enumerated job text, in lexemes.
MaxTextLen == 3
\* Longest run of equal lines in a generated long section.
MaxRep == 16
\* Longest list of achievements.
MaxAchievements == 3
\* Longest list of achievements handed to the auxiliary operations.
MaxReportLen == 2
\* Longest list of job keywords, and longest enumerated document.
MaxKeywords == 3
MaxDocLen == 2
\* Longest text handed to the format check.
MaxFormatLen == 3
\* Longest list of achievements a library holds.
MaxLibrary == 2
\* Most rows ever inserted into applications and into application_events.
MaxApplications == 2
MaxEvents == 3
\* Most create / update calls that are between their commit and their
\* add_event at any one time.
MaxPending == 1

----------------------------------------------------------------------------
(* Strings *)

\* len(x) of a lexeme, in characters.
LexLen(x) ==
  CASE x \in {NL, SP, "-", "*", "\\u2022", "\\u00e2", "\\u20ac", "\\u00a2"} -> 1
    [] x \in {"1.", "of"} -> 2
    [] x = "$90k" -> 4
    [] x \in {"Python", "remote"} -> 6
    [] x \in {"5+ years", "Master's"} -> 8
    [] x = "Preferred" -> 9
    [] x = "Requirements" -> 12
    [] x = "experience" -> 10
    [] x = ": Docker, AWS" -> 13
    [] x = "docker and aws knowledge" -> 24

\* str.lower() of a lexeme or of a skill name.
Lower(x) ==
  CASE x = "Requirements" -> "requirements"
    [] x = "Preferred" -> "preferred"
    [] x = "Python" -> "python"
    [] x = "PYTHON" -> "python"
    [] x = "Docker" -> "docker"
    [] x = "AWS" -> "aws"
    [] x = "Aws" -> "aws"
    [] x = ": Docker, AWS" -> ": docker, aws"
    [] x = "Master's" -> "master's"
    [] x = "Python Developer" -> "python developer"
    [] x = "Developed Python applications" -> "developed python applications"
    [] x = "Senior Python Developer" -> "senior python developer"
    [] x = "Engineering Manager" -> "engineering manager"
    [] x = "Data Analyst" -> "data analyst"
    [] x = "Experience" -> "experience"
    [] x = "Experience with AWS" -> "experience with aws"
    [] x = "I used" -> "i used"
    [] x = "EDUCATION" -> "education"
    [] x = "Summary:" -> "summary:"
    [] OTHER -> x

\* The proper substrings among the lowercase strings of the model.
SubstringPairs ==
  { <<"docker", ": docker, aws">>, <<"aws", ": docker, aws">>,
    <<"docker", "docker and aws knowledge">>,
    <<"aws", "docker and aws knowledge">>,
    <<"python", "python developer">>, <<"developer", "python developer">>,
    <<"python", "developed python applications">>,
    <<"python", "senior python developer">>,
    <<"senior", "senior python developer">>,
    <<"developer", "senior python developer">>,
    <<"engineer", "engineering manager">>,
    <<"manager", "engineering manager">>,
    <<"experience", "experience with aws">>,
    <<"aws", "experience with aws">>,
    <<"summary", "summary:">> }

\* a in b, for lowercase strings a and b.
IsSubstring(a, b) == a = b \/ <<a, b>> \in SubstringPairs

\* a in t, for a lowercase string a and a text t (a lexeme sequence).
InText(a, t) == \E i \in 1..Len(t) : IsSubstring(a, Lower(t[i]))

\* len(t) of a text, in characters.
RECURSIVE TextLen(_)
TextLen(t) == IF t = <<>> THEN 0 ELSE LexLen(Head(t)) + TextLen(Tail(t))

IsWS(x) == x \in {NL, SP}

\* str.strip()
RECURSIVE LStrip(_)
LStrip(t) == IF t # <<>> /\ IsWS(Head(t)) THEN LStrip(Tail(t)) ELSE t

RECURSIVE RStrip(_)
RStrip(t) ==
  IF t # <<>> /\ IsWS(t[Len(t)]) THEN RStrip(SubSeq(t, 1, Len(t) - 1)) ELSE t

Strip(t) == RStrip(LStrip(t))

\* str.split('\n'): the lines of t, one more than its newlines.
RECURSIVE SplitLines(_, _)
SplitLines(t, cur) ==
  IF t = <<>> THEN <<cur>>
  ELSE IF Head(t) = NL THEN <<cur>> \o SplitLines(Tail(t), <<>>)
  ELSE SplitLines(Tail(t), Append(cur, Head(t)))

Split(t) == SplitLines(t, <<>>)

\* seq[:n]
Take(s, n) == SubSeq(s, 1, IF Len(s) < n THEN Len(s) ELSE n)

\* The sequences over S of length at most n.
SeqUpTo(S, n) == UNION { [1..k -> S] : k \in 0..n }

----------------------------------------------------------------------------
(* core/job_parser.py *)

\* JobParser.SECTION_PATTERNS.
\* The lowercase phrases each section pattern matches ((?i), whole lexemes).
\* \d+\+?\s*years? is listed by the instances the model's texts use.
STOP_WORDS ==
  { "the", "a", "an", "and", "or", "but", "in", "on", "at", "to", "for",
    "of", "with", "by", "from", "as", "is", "was", "are", "were", "been",
    "be", "have", "has", "had", "do", "does", "did", "will", "would",
    "could", "should", "may", "might", "must", "can", "this", "that",
    "these", "those", "i", "you", "he", "she", "it", "we", "they" }

SECTION_PATTERNS ==
  [ requirements |->
      { "requirement", "requirements", "qualification", "qualifications",
        "what we're", "what you'll need", "you have", "you bring" },
    responsibilities |->
      { "responsibilities", "duties", "what you'll do", "role description",
        "the role" },
    skills |->
      { "skill", "skills", "technical skill", "technical skills",
        "required skill", "required skills", "must have" },
    preferred |-> { "preferred", "nice to have", "bonus", "plus", "desirable" },
    education |-> { "education", "degree", "qualification" },
    experience |-> { "5+ years", "5 years", "5 year", "experience level" } ]

\* re.search(pattern, t, re.IGNORECASE): the 1-based index of the first
\* lexeme the pattern matches, 0 when there is no match.
Search(pattern, t) ==
  IF \E i \in 1..Len(t) : Lower(t[i]) \in pattern
  THEN CHOOSE i \in 1..Len(t) :
         /\ Lower(t[i]) \in pattern
         /\ \A j \in 1..(i - 1) : Lower(t[j]) \notin pattern
  ELSE 0

\* JobParser._load_common_skills: three of the 67 names, in list order.
_load_common_skills == << "Python", "AWS", "Docker" >>

\* bullets[:15]
MaxItems == 15
\* len(bullet) > 10
MinBulletLen == 10
\* len(line.strip()) > 20
MinLineLen == 20
\* lines[:10], len(line) > 30, len(description) >= 3
DescScanLines == 10
DescMinLen == 30
DescMaxLines == 3

\* The characters [-...*] and \d+\. of bullet_pattern.  The class reads
\* [-a-circumflex, euro, cent, *] in the source file: the bullet glyph
\* itself ("\\u2022") is not a member.
BulletMarkers == { "-", "*", "1.", "\\u00e2", "\\u20ac", "\\u00a2" }

\* The first index k >= i that is past the end of t or holds no whitespace.
SkipWS(t, i) ==
  CHOOSE k \in i..(Len(t) + 1) :
    /\ \A j \in i..(k - 1) : IsWS(t[j])
    /\ (k = Len(t) + 1 \/ ~IsWS(t[k]))

\* The last index of the line that holds index m (t[m] is no newline).
LineEnd(t, m) ==
  CHOOSE e \in m..Len(t) :
    /\ \A j \in m..e : t[j] # NL
    /\ (e = Len(t) \/ t[e + 1] = NL)

\* One attempt of bullet_pattern at index i:
\*   (?:^|\n)\s*(?:[-...*]|\d+\.)\s+(.+?)(?=\n|$)   under re.MULTILINE.
\* ^ holds at the start of the text and after a newline; \n consumes one.
\* Either way \s* then runs to the first non-blank lexeme, which must be a
\* marker followed by whitespace; group 1 is the rest of the line that the
\* first non-blank lexeme after the marker starts.  When only whitespace
\* follows the marker the group is blank or the attempt fails: no item.
BulletAt(t, i) ==
  LET starts == i = 1 \/ t[i - 1] = NL \/ (i <= Len(t) /\ t[i] = NL)
      k == SkipWS(t, i)
      marked == /\ starts
                /\ k + 1 <= Len(t)
                /\ t[k] \in BulletMarkers
                /\ IsWS(t[k + 1])
      m == SkipWS(t, k + 1)
  IN  IF marked /\ m <= Len(t)
      THEN [ok |-> TRUE, from |-> m, to |-> LineEnd(t, m)]
      ELSE [ok |-> FALSE, from |-> 0, to |-> 0]

\* re.finditer(bullet_pattern, t): group 1 of each match, scanning from i.
RECURSIVE FindBullets(_, _)
FindBullets(t, i) ==
  IF i > Len(t) THEN <<>>
  ELSE LET b == BulletAt(t, i)
       IN  IF b.ok
           THEN <<SubSeq(t, b.from, b.to)>> \o FindBullets(t, b.to + 1)
           ELSE FindBullets(t, i + 1)

\* [bullet.strip() for each match if len(bullet.strip()) > 10]
RECURSIVE KeepBullets(_)
KeepBullets(bs) ==
  IF bs = <<>> THEN <<>>
  ELSE LET b == Strip(Head(bs))
       IN  (IF TextLen(b) > MinBulletLen THEN <<b>> ELSE <<>>)
           \o KeepBullets(Tail(bs))

\* [line.strip() for line in lines if len(line.strip()) > 20]
RECURSIVE KeepLines(_)
KeepLines(ls) ==
  IF ls = <<>> THEN <<>>
  ELSE LET l == Strip(Head(ls))
       IN  (IF TextLen(l) > MinLineLen THEN <<l>> ELSE <<>>)
           \o KeepLines(Tail(ls))

\* The loop "for other_pattern in self.SECTION_PATTERNS.values()": the
\* smallest 0-based start offset of a match of ANY of the six patterns in
\* the remaining text (the section's own pattern included); found is FALSE
\* when next_section stays None.
NextSection(remaining) ==
  LET hits == { Search(SECTION_PATTERNS[s], remaining) - 1 :
                  s \in { x \in DOMAIN SECTION_PATTERNS :
                            Search(SECTION_PATTERNS[x], remaining) > 0 } }
  IN  IF hits = {} THEN [found |-> FALSE, start |-> 0]
      ELSE [found |-> TRUE,
            start |-> CHOOSE n \in hits : \A o \in hits : n <= o]

\* remaining_text[:next_section] if next_section else remaining_text
\* (None and 0 are both falsy).
SectionText(text, section_type) ==
  LET match == Search(SECTION_PATTERNS[section_type], text)
      remaining_text == SubSeq(text, match + 1, Len(text))
      next_section == NextSection(remaining_text)
  IN  IF next_section.found /\ next_section.start # 0
      THEN SubSeq(remaining_text, 1, next_section.start)
      ELSE remaining_text

\* ExtractItems with the bug of returning every item (no [:15]).
ExtractItemsNoCap(section_text) ==
  LET bullets == KeepBullets(FindBullets(section_text, 1))
  IN  IF bullets = <<>> THEN KeepLines(Split(section_text)) ELSE bullets

\* Lines 159-172 of _extract_section: the items of a section's text.
ExtractItems(section_text) ==
  LET bullets == KeepBullets(FindBullets(section_text, 1))
  IN  Take(IF bullets = <<>> THEN KeepLines(Split(section_text)) ELSE bullets,
           MaxItems)

\* JobParser._extract_section
_extract_section(text, section_type) ==
  IF section_type \notin DOMAIN SECTION_PATTERNS THEN <<>>
  ELSE IF Search(SECTION_PATTERNS[section_type], text) = 0 THEN <<>>
  ELSE ExtractItems(SectionText(text, section_type))

\* JobParser._extract_description
RECURSIVE JoinLines(_)
JoinLines(ls) ==
  IF ls = <<>> THEN <<>>
  ELSE IF Len(ls) = 1 THEN Head(ls)
  ELSE Head(ls) \o <<SP>> \o JoinLines(Tail(ls))

RECURSIVE LongLines(_)
LongLines(ls) ==
  IF ls = <<>> THEN <<>>
  ELSE LET l == Strip(Head(ls))
       IN  (IF TextLen(l) > DescMinLen THEN <<l>> ELSE <<>>)
           \o LongLines(Tail(ls))

_extract_description(text) ==
  JoinLines(Take(LongLines(Take(Split(text), DescScanLines)), DescMaxLines))

\* SkillStep with the bug of listing a preferred skill as required too.
SkillStepBoth(skills, skill, text, preferred_section) ==
  LET skill_lower == Lower(skill)
  IN  IF ~InText(skill_lower, text) THEN skills
      ELSE IF \E i \in 1..Len(preferred_section) :
                InText(skill_lower, preferred_section[i])
      THEN [required |-> Append(skills.required, skill),
            preferred |-> Append(skills.preferred, skill)]
      ELSE [skills EXCEPT !.required = Append(@, skill)]

\* One step of the loop "for skill in self.common_skills" of
\* _extract_skills: skills is the dict built so far.
SkillStep(skills, skill, text, preferred_section) ==
  LET skill_lower == Lower(skill)
      has(list) == \E i \in 1..Len(list) : list[i] = skill
  IN  IF ~InText(skill_lower, text) THEN skills
      ELSE IF \E i \in 1..Len(preferred_section) :
                InText(skill_lower, preferred_section[i])
      THEN IF has(skills.preferred) THEN skills
           ELSE [skills EXCEPT !.preferred = Append(@, skill)]
      ELSE IF has(skills.required) THEN skills
           ELSE [skills EXCEPT !.required = Append(@, skill)]

RECURSIVE SkillLoop(_, _, _, _)
SkillLoop(skills, todo, text, preferred_section) ==
  IF todo = <<>> THEN skills
  ELSE SkillLoop(SkillStep(skills, Head(todo), text, preferred_section),
                 Tail(todo), text, preferred_section)

\* JobParser._extract_skills, reading self.common_skills.
_extract_skills(common_skills, text) ==
  SkillLoop([required |-> <<>>, preferred |-> <<>>], common_skills, text,
            _extract_section(text, "preferred"))

\* JobParser._extract_education: the two patterns, tried in order; the
\* lexemes each matches whole ((?i) is part of both).
EducationPatterns ==
  << {}, { "bachelor's", "master's", "phd", "doctorate", "mba" } >>

_extract_education(text) ==
  LET first == Search(EducationPatterns[1], text)
      second == Search(EducationPatterns[2], text)
  IN  IF first > 0 THEN Some(<<text[first]>>)
      ELSE IF second > 0 THEN Some(<<text[second]>>)
      ELSE None

\* JobParser._extract_experience:
\*   (\d+\+?)...years?(?:\s+of)?\s+(?:experience|exp\.?)?
\* at a "N years" lexeme: optionally whitespace and "of", then whitespace
\* (required), then optionally "experience"/"exp"; group(0).strip().
YearsLexemes == { "5+ years", "5 years", "5 year" }
ExperienceWords == { "experience", "exp", "exp." }

ExperienceAt(t, i) ==
  LET a == SkipWS(t, i + 1)
      hasOf == a > i + 1 /\ a <= Len(t) /\ Lower(t[a]) = "of"
      b == SkipWS(t, a + 1)
      tail(k) == IF k <= Len(t) /\ Lower(t[k]) \in ExperienceWords
                 THEN k ELSE k - 1
  IN  IF Lower(t[i]) \notin YearsLexemes THEN [ok |-> FALSE, to |-> 0]
      ELSE IF hasOf /\ b > a + 1 THEN [ok |-> TRUE, to |-> tail(b)]
      ELSE IF a > i + 1 THEN [ok |-> TRUE, to |-> tail(a)]
      ELSE [ok |-> FALSE, to |-> 0]

_extract_experience(text) ==
  IF \E i \in 1..Len(text) : ExperienceAt(text, i).ok
  THEN LET i == CHOOSE k \in 1..Len(text) :
                  /\ ExperienceAt(text, k).ok
                  /\ \A j \in 1..(k - 1) : ~ExperienceAt(text, j).ok
       IN  Some(Strip(SubSeq(text, i, ExperienceAt(text, i).to)))
  ELSE None

\* JobParser._extract_salary: the lexemes the two patterns match (no (?i)).
SalaryLexemes == { "$90k" }

_extract_salary(text) ==
  IF \E i \in 1..Len(text) : text[i] \in SalaryLexemes
  THEN LET i == CHOOSE k \in 1..Len(text) :
                  /\ text[k] \in SalaryLexemes
                  /\ \A j \in 1..(k - 1) : text[j] \notin SalaryLexemes
       IN  Some(<<text[i]>>)
  ELSE None

\* JobParser._extract_job_type: the first job type of the list, in list
\* order, that occurs in the lowercased text.
job_types ==
  << "full-time", "part-time", "contract", "temporary", "internship",
     "remote", "hybrid" >>

\* _extract_job_type with the bug of defaulting to the first job type.
JobTypeDefaulted(text) ==
  IF \E k \in 1..Len(job_types) : InText(job_types[k], text)
  THEN LET k == CHOOSE n \in 1..Len(job_types) : InText(job_types[n], text)
       IN  Some(<<job_types[k]>>)
  ELSE Some(<<job_types[1]>>)

_extract_job_type(text) ==
  IF \E k \in 1..Len(job_types) : InText(job_types[k], text)
  THEN LET k == CHOOSE n \in 1..Len(job_types) :
                  /\ InText(job_types[n], text)
                  /\ \A j \in 1..(n - 1) : ~InText(job_types[j], text)
       IN  Some(<<job_types[k]>>)
  ELSE None

\* JobParser.parse on an instance whose self.common_skills is common_skills.
\* The JobDescription constructor and __post_init__ set the other fields.
parse(common_skills, text, job_id, title, company) ==
  LET skills == _extract_skills(common_skills, text)
  IN  [ id |-> job_id,
        title |-> title,
        company |-> company,
        location |-> None,
        description |-> _extract_description(text),
        requirements |-> _extract_section(text, "requirements"),
        responsibilities |-> _extract_section(text, "responsibilities"),
        skills_required |-> skills.required,
        skills_preferred |-> skills.preferred,
        education |-> _extract_education(text),
        experience |-> _extract_experience(text),
        salary_range |-> _extract_salary(text),
        job_type |-> _extract_job_type(text),
        url |-> None,
        posted_date |-> None,
        raw_text |-> text ]

\* SkillsAfterParse with the bug of a parse consuming the skills it found.
RECURSIVE SkillsConsumed(_, _)
SkillsConsumed(common_skills, text) ==
  IF common_skills = <<>> THEN <<>>
  ELSE (IF InText(Lower(Head(common_skills)), text) THEN <<>>
        ELSE <<Head(common_skills)>>)
       \o SkillsConsumed(Tail(common_skills), text)

\* What a parse call leaves in self.common_skills: _extract_skills only
\* iterates the list, and no method assigns it after __init__.
SkillsAfterParse(common_skills, text) == common_skills

----------------------------------------------------------------------------
(* analysis/matcher.py *)

\* Fractions: relevance_score is the exact quotient num / den (den > 0);
\* the float rounding of the source is left out.
Leq(a, b) == a.num * b.den <= b.num * a.den
SameScore(a, b) == a.num * b.den = b.num * a.den

Max(a, b) == IF a >= b THEN a ELSE b
Min(a, b) == IF a <= b THEN a ELSE b

\* [s.lower() for s in list]
LowerAll(list) == [i \in 1..Len(list) |-> Lower(list[i])]

\* x in list
Member(x, list) == \E i \in 1..Len(list) : list[i] = x

\* AchievementJobMatcher._extract_keywords_from_text: what the two
\* re.findall calls return for the requirement strings of the model.
_extract_keywords_from_text(req) ==
  CASE req = "Experience with AWS" -> << "Experience", "AWS" >>
    [] OTHER -> <<>>

RECURSIVE KeywordsOfAll(_)
KeywordsOfAll(reqs) ==
  IF reqs = <<>> THEN <<>>
  ELSE _extract_keywords_from_text(Head(reqs)) \o KeywordsOfAll(Tail(reqs))

\* The dict keywords_lower: the first spelling of each lowercase keyword.
RECURSIVE DedupLower(_, _)
DedupLower(keywords, kept) ==
  IF keywords = <<>> THEN kept
  ELSE DedupLower(Tail(keywords),
                  IF Member(Lower(Head(keywords)), LowerAll(kept)) THEN kept
                  ELSE Append(kept, Head(keywords)))

\* AchievementJobMatcher._extract_job_keywords
_extract_job_keywords(job) ==
  DedupLower(job.skills_required \o job.skills_preferred
               \o KeywordsOfAll(job.requirements)
               \o KeywordsOfAll(job.responsibilities),
             <<>>)

\* SkillMatches testing the job's list instead of the skill's membership:
\* "if job_skills" for "if skill in job_skills".
SkillMatchesUnfiltered(achievement_skills, job_skills) ==
  IF job_skills # <<>> THEN achievement_skills ELSE <<>>

\* [skill for skill in achievement_skills if skill in job_skills]
RECURSIVE SkillMatches(_, _)
SkillMatches(achievement_skills, job_skills) ==
  IF achievement_skills = <<>> THEN <<>>
  ELSE (IF Member(Head(achievement_skills), job_skills)
        THEN <<Head(achievement_skills)>> ELSE <<>>)
       \o SkillMatches(Tail(achievement_skills), job_skills)

\* (achievement.title + " " + achievement.description)
AchievementText(achievement) ==
  << achievement.title, SP, achievement.description >>

\* The job keywords found in achievement.keywords or in the text.
RECURSIVE KeywordMatches(_, _)
KeywordMatches(job_keywords_lower, achievement) ==
  IF job_keywords_lower = <<>> THEN <<>>
  ELSE (IF \/ Member(Head(job_keywords_lower),
                     LowerAll(achievement.keywords))
           \/ InText(Head(job_keywords_lower), AchievementText(achievement))
        THEN <<Head(job_keywords_lower)>> ELSE <<>>)
       \o KeywordMatches(Tail(job_keywords_lower), achievement)

\* The weights of the four components.
RequiredWeight == 40
PreferredWeight == 20
KeywordWeight == 30
CategoryWeight == 10
ProjectPoints == 5

TechnicalTitles == { "engineer", "developer", "programmer", "architect" }
LeadershipTitles == { "lead", "manager", "director", "senior", "principal" }

\* Lines 146-162: the category branch taken, "none" when no points.
CategoryBranch(achievement, job) ==
  IF job.title = "" THEN "none"
  ELSE IF /\ achievement.category = "technical"
          /\ \E w \in TechnicalTitles : IsSubstring(w, Lower(job.title))
  THEN "technical"
  ELSE IF /\ achievement.category = "leadership"
          /\ \E w \in LeadershipTitles : IsSubstring(w, Lower(job.title))
  THEN "leadership"
  ELSE IF achievement.category = "project" THEN "project"
  ELSE "none"

CategoryPoints(achievement, job) ==
  CASE CategoryBranch(achievement, job) \in {"technical", "leadership"} ->
         CategoryWeight
    [] CategoryBranch(achievement, job) = "project" -> ProjectPoints
    [] OTHER -> 0

\* MaxScore adding every weight, whatever the job supplied.
MaxScoreAllWeights(required, preferred, keywords) ==
  RequiredWeight + PreferredWeight + KeywordWeight + CategoryWeight

\* max_score at line 164: each "max_score += w" runs under the test that
\* the job's list is not empty, the category's always.
MaxScore(required, preferred, keywords) ==
  (IF required # <<>> THEN RequiredWeight ELSE 0)
    + (IF preferred # <<>> THEN PreferredWeight ELSE 0)
    + (IF keywords # <<>> THEN KeywordWeight ELSE 0)
    + CategoryWeight

\* The parts of _score_achievement.  Points are kept as numerators over
\* the common denominator scale = N * M * K (each at least 1, as in
\* max(len(...), 1)) of the required, preferred and keyword counts.
Parts(achievement, job, job_keywords) ==
  LET required == LowerAll(job.skills_required)
      preferred == LowerAll(job.skills_preferred)
      keywords == LowerAll(job_keywords)
      skills == LowerAll(achievement.skills)
      N == Max(Len(required), 1)
      M == Max(Len(preferred), 1)
      K == Max(Len(keywords), 1)
      matched_skills == IF required # <<>>
                        THEN SkillMatches(skills, required) ELSE <<>>
      preferred_matches == IF preferred # <<>>
                           THEN Len(SkillMatches(skills, preferred)) ELSE 0
      matched_keywords == IF keywords # <<>>
                          THEN KeywordMatches(keywords, achievement) ELSE <<>>
  IN  [ scale |-> N * M * K,
        required_points |-> RequiredWeight * Len(matched_skills) * M * K,
        preferred_points |-> PreferredWeight * preferred_matches * N * K,
        keyword_points |->
          Min(KeywordWeight * Len(matched_keywords), KeywordWeight * K)
            * N * M,
        category_points |-> CategoryPoints(achievement, job) * N * M * K,
        max_score |-> MaxScore(required, preferred, keywords),
        matched_skills |-> matched_skills,
        preferred_matches |-> preferred_matches,
        matched_keywords |-> matched_keywords ]

\* Normalize with the clamp left out.
NormalizeUnclamped(score, max_score, scale) ==
  [num |-> score, den |-> max_score * scale]

\* Normalize taking a job that supplied only the category's weight for a
\* job that supplied nothing: "if max_score > 10".
NormalizeNoCategory(score, max_score, scale) ==
  IF max_score > CategoryWeight
  THEN [num |-> Min(score, max_score * scale), den |-> max_score * scale]
  ELSE [num |-> 0, den |-> 1]

\* Lines 164-168: min(score / max_score, 1.0); max_score is at least 10.
Normalize(score, max_score, scale) ==
  IF max_score > 0
  THEN [num |-> Min(score, max_score * scale), den |-> max_score * scale]
  ELSE [num |-> 0, den |-> 1]

\* Reasons without lines 170-171: no default reason.
ReasonsWithoutDefault(p, branch) ==
  (IF p.matched_skills # <<>>
   THEN <<[kind |-> "required skills", n |-> Len(p.matched_skills)]>>
   ELSE <<>>)
  \o (IF p.preferred_matches > 0
      THEN <<[kind |-> "preferred skills", n |-> p.preferred_matches]>>
      ELSE <<>>)
  \o (IF p.matched_keywords # <<>>
      THEN <<[kind |-> "job keywords", n |-> Len(p.matched_keywords)]>>
      ELSE <<>>)
  \o (IF branch # "none" THEN <<[kind |-> branch, n |-> 1]>> ELSE <<>>)

\* The reasons list: one entry per component that matched, or the default.
Reasons(p, branch) ==
  LET found ==
        (IF p.matched_skills # <<>>
         THEN <<[kind |-> "required skills", n |-> Len(p.matched_skills)]>>
         ELSE <<>>)
        \o (IF p.preferred_matches > 0
            THEN <<[kind |-> "preferred skills", n |-> p.preferred_matches]>>
            ELSE <<>>)
        \o (IF p.matched_keywords # <<>>
            THEN <<[kind |-> "job keywords", n |-> Len(p.matched_keywords)]>>
            ELSE <<>>)
        \o (IF branch # "none" THEN <<[kind |-> branch, n |-> 1]>> ELSE <<>>)
  IN  IF found = <<>> THEN <<[kind |-> "Limited keyword match", n |-> 0]>>
      ELSE found

\* AchievementJobMatcher._score_achievement
_score_achievement(achievement, job, job_keywords) ==
  LET p == Parts(achievement, job, job_keywords)
      score == p.required_points + p.preferred_points + p.keyword_points
                 + p.category_points
  IN  [ achievement |-> achievement,
        relevance_score |-> Normalize(score, p.max_score, p.scale),
        matched_skills |-> p.matched_skills,
        matched_keywords |-> p.matched_keywords,
        reasons |-> Reasons(p, CategoryBranch(achievement, job)) ]

\* Insert with the bug of an unstable sort: before the results of equal
\* score.
InsertUnstable(sorted, m) ==
  LET before == { i \in 1..Len(sorted) :
                    ~Leq(sorted[i].relevance_score, m.relevance_score) }
      k == Cardinality(before)
  IN  SubSeq(sorted, 1, k) \o <<m>> \o SubSeq(sorted, k + 1, Len(sorted))

\* results.sort(key=relevance_score, reverse=True) is stable: a result goes
\* after every result whose score is not smaller.
Insert(sorted, m) ==
  LET before == { i \in 1..Len(sorted) :
                    Leq(m.relevance_score, sorted[i].relevance_score) }
      k == Cardinality(before)
  IN  SubSeq(sorted, 1, k) \o <<m>> \o SubSeq(sorted, k + 1, Len(sorted))

RECURSIVE SortDescending(_, _)
SortDescending(results, sorted) ==
  IF results = <<>> THEN sorted
  ELSE SortDescending(Tail(results), Insert(sorted, Head(results)))

\* AchievementJobMatcher.match_achievements_to_job; top_n is {} for None
\* and {n} for the integer n ("if top_n" is false for None and for 0).
match_achievements_to_job(achievements, job, top_n) ==
  LET job_keywords == _extract_job_keywords(job)
      results == [i \in 1..Len(achievements) |->
                    _score_achievement(achievements[i], job, job_keywords)]
      sorted == SortDescending(results, <<>>)
  IN  IF top_n # {} /\ top_n # {0}
      THEN Take(sorted, CHOOSE n \in top_n : TRUE)
      ELSE sorted


----------------------------------------------------------------------------
(* analysis/ats_analyzer.py *)

\* SelectKeywords testing the keyword as written against the lowercased
\* document: "if keyword in document_lower".
RECURSIVE SelectKeywordsAsWritten(_, _, _)
SelectKeywordsAsWritten(job_keywords, document_text, hit) ==
  IF job_keywords = <<>> THEN <<>>
  ELSE (IF InText(Head(job_keywords), document_text) = hit
        THEN <<Head(job_keywords)>> ELSE <<>>)
       \o SelectKeywordsAsWritten(Tail(job_keywords), document_text, hit)

\* [k for k in job_keywords if k.lower() in document_lower] when hit, and
\* the keywords that are not when ~hit, in list order.
RECURSIVE SelectKeywords(_, _, _)
SelectKeywords(job_keywords, document_text, hit) ==
  IF job_keywords = <<>> THEN <<>>
  ELSE (IF InText(Lower(Head(job_keywords)), document_text) = hit
        THEN <<Head(job_keywords)>> ELSE <<>>)
       \o SelectKeywords(Tail(job_keywords), document_text, hit)

\* document_lower.count(keyword_lower)
CountIn(keyword_lower, document_text) ==
  Cardinality({ i \in 1..Len(document_text) :
                  IsSubstring(keyword_lower, Lower(document_text[i])) })

\* Round2 cutting the digits after the second decimal instead of rounding.
Truncate2(matched, total) == (10000 * matched) \div total

\* round(x, 2) of x = 100 * matched / total, in hundredths (no quotient of
\* fewer than 32 keywords lies halfway between two hundredths).
Round2(matched, total) == (2 * 10000 * matched + total) \div (2 * total)

\* MatchScore with the guard of line 81 left out: the division raises.
MatchScoreUnguarded(matched, job_keywords) ==
  IF job_keywords = <<>>
  THEN [raised |-> TRUE, num |-> 0, den |-> 1, rounded |-> 0]
  ELSE [raised |-> FALSE, num |-> 100 * Len(matched),
        den |-> Len(job_keywords),
        rounded |-> Round2(Len(matched), Len(job_keywords))]

\* Lines 80-84 and 99: match_score as the fraction num / den, and
\* round(match_score, 2) in hundredths; raised says ZeroDivisionError.
MatchScore(matched, job_keywords) ==
  IF job_keywords # <<>>
  THEN [raised |-> FALSE, num |-> 100 * Len(matched),
        den |-> Len(job_keywords),
        rounded |-> Round2(Len(matched), Len(job_keywords))]
  ELSE [raised |-> FALSE, num |-> 0, den |-> 1, rounded |-> 0]

\* The keys of a dict filled in list order, each once.
RECURSIVE Keys(_, _)
Keys(list, kept) ==
  IF list = <<>> THEN kept
  ELSE Keys(Tail(list),
            IF Member(Head(list), kept) THEN kept ELSE Append(kept, Head(list)))

\* [s for s in keys if not covered]
RECURSIVE Uncovered(_, _)
Uncovered(keys, document_text) ==
  IF keys = <<>> THEN <<>>
  ELSE (IF InText(Lower(Head(keys)), document_text) THEN <<>>
        ELSE <<Head(keys)>>)
       \o Uncovered(Tail(keys), document_text)

\* The thresholds of _generate_recommendations.
LowScore == 50
ModerateScore == 70
TopMissing == 5
LowFreqLimit == 3
TopMissingSkills == 3

\* Banner with the limits taken inclusively: "score <= 50", "score <= 70".
BannerInclusive(score) ==
  IF score.num <= LowScore * score.den THEN "low"
  ELSE IF score.num <= ModerateScore * score.den THEN "moderate"
  ELSE "good"

\* Lines 128-139: the banner chosen from the score before rounding.
Banner(score) ==
  IF score.num < LowScore * score.den THEN "low"
  ELSE IF score.num < ModerateScore * score.den THEN "moderate"
  ELSE "good"

\* ATSAnalyzer._generate_recommendations; a recommendation is its kind and
\* the names it lists.
_generate_recommendations(score, matched, missing, freq, skill_coverage) ==
  LET banner == Banner(score)
      low_freq_keywords == { k \in DOMAIN freq : freq[k] = 1 }
      missing_skills == Uncovered(skill_coverage.keys, skill_coverage.text)
  IN  <<[kind |-> banner, names |-> <<>>]>>
      \o (IF missing # <<>>
          THEN <<[kind |-> "missing keywords",
                  names |-> Take(missing, TopMissing)]>>
          ELSE <<>>)
      \o (IF Cardinality(low_freq_keywords) > LowFreqLimit
          THEN <<[kind |-> "repeat keywords", names |-> <<>>]>>
          ELSE <<>>)
      \o (IF missing_skills # <<>>
          THEN <<[kind |-> "missing skills",
                  names |-> Take(missing_skills, TopMissingSkills)]>>
          ELSE <<>>)
      \o << [kind |-> "standard headings", names |-> <<>>],
            [kind |-> "standard fonts", names |-> <<>>] >>

\* ATSAnalyzer.analyze; job_skills is <<>> for None.  skill_coverage is
\* kept as its keys and the text they are tested against.
analyze(job_keywords, document_text, job_skills) ==
  LET matched == SelectKeywords(job_keywords, document_text, TRUE)
      missing == SelectKeywords(job_keywords, document_text, FALSE)
      keyword_freq ==
        [k \in { matched[i] : i \in 1..Len(matched) } |->
           CountIn(Lower(k), document_text)]
      match_score == MatchScore(matched, job_keywords)
      skill_coverage == [keys |-> Keys(job_skills, <<>>),
                         text |-> document_text]
  IN  [ raised |-> match_score.raised,
        match_score |-> match_score.rounded,
        matched_keywords |-> matched,
        missing_keywords |-> missing,
        keyword_frequency |-> keyword_freq,
        recommendations |->
          _generate_recommendations(match_score, matched, missing,
                                    keyword_freq, skill_coverage),
        skill_coverage |->
          [k \in { job_skills[i] : i \in 1..Len(job_skills) } |->
             InText(Lower(k), document_text)] ]

----------------------------------------------------------------------------
(* analysis/matcher.py: the auxiliary operations *)

\* [m for m in matches if m.relevance_score >= threshold]; threshold is a
\* fraction as the scores are.
RECURSIVE filter_by_threshold(_, _)
filter_by_threshold(matches, threshold) ==
  IF matches = <<>> THEN <<>>
  ELSE (IF Leq(threshold, Head(matches).relevance_score)
        THEN <<Head(matches)>> ELSE <<>>)
       \o filter_by_threshold(Tail(matches), threshold)

\* The filter done in place: "matches[:] = [m for m in matches if ...]".
MatchesFilteredInPlace(matches, threshold) ==
  filter_by_threshold(matches, threshold)

\* The caller's list after filter_by_threshold: the comprehension builds a
\* new list and leaves its argument as it was.
MatchesAfterFilter(matches, threshold) == matches

\* AchievementJobMatcher.group_by_category: a dict, kept as its keys in
\* insertion order and the list under each key.
group_by_category(matches) ==
  LET categories == Keys([i \in 1..Len(matches) |->
                            matches[i].achievement.category], <<>>)
  IN  [ keys |-> categories,
        lists |->
          [c \in { categories[i] : i \in 1..Len(categories) } |->
             LET at == { i \in 1..Len(matches) :
                           matches[i].achievement.category = c }
             IN  [k \in 1..Cardinality(at) |->
                    matches[CHOOSE i \in at :
                              Cardinality({ j \in at : j < i }) = k - 1]]] ]

\* The limits of _get_coverage_recommendation, in percent of the required
\* skills, and the number of missing skills its last message names.
ExcellentCoverage == 80
GoodCoverage == 60
ModerateCoverage == 40
MissingShown == 3

\* AchievementJobMatcher._get_coverage_recommendation for a coverage of
\* covered / total (0 when total is 0).  list(missing_required)[:3] names
\* three skills in the order the set happens to iterate; the message is
\* kept as its tier and the number of skills it names.
_get_coverage_recommendation(covered, total, missing_required) ==
  LET percent_num == IF total = 0 THEN 0 ELSE 100 * covered
      percent_den == IF total = 0 THEN 1 ELSE total
  IN  IF percent_num >= ExcellentCoverage * percent_den
      THEN [kind |-> "excellent", shown |-> 0]
      ELSE IF percent_num >= GoodCoverage * percent_den
      THEN [kind |-> "good", shown |-> 0]
      ELSE IF percent_num >= ModerateCoverage * percent_den
      THEN [kind |-> "moderate", shown |-> 0]
      ELSE [kind |-> "low",
            shown |-> Min(MissingShown, Cardinality(missing_required))]

\* set(...) of the entries of a list.
SetOf(list) == { list[i] : i \in 1..Len(list) }

\* AchievementJobMatcher.get_coverage_report.  The two missing lists are
\* list(set), of no fixed order, and are kept as sets; the percentages are
\* in hundredths, as round(x * 100, 2) gives them.
get_coverage_report(matches, job) ==
  LET all_matched_skills ==
        UNION { SetOf(LowerAll(matches[i].matched_skills)) :
                  i \in 1..Len(matches) }
      all_matched_keywords ==
        UNION { SetOf(LowerAll(matches[i].matched_keywords)) :
                  i \in 1..Len(matches) }
      required_skills == SetOf(LowerAll(job.skills_required))
      preferred_skills == SetOf(LowerAll(job.skills_preferred))
      required_hit == Cardinality(all_matched_skills \cap required_skills)
      preferred_hit == Cardinality(all_matched_skills \cap preferred_skills)
      missing_required == required_skills \ all_matched_skills
      missing_preferred == preferred_skills \ all_matched_skills
  IN  [ required_skills_coverage |->
          IF required_skills # {}
          THEN Round2(required_hit, Cardinality(required_skills)) ELSE 0,
        preferred_skills_coverage |->
          IF preferred_skills # {}
          THEN Round2(preferred_hit, Cardinality(preferred_skills)) ELSE 0,
        matched_skills_count |-> Cardinality(all_matched_skills),
        matched_keywords_count |-> Cardinality(all_matched_keywords),
        missing_required_skills |-> missing_required,
        missing_preferred_skills |-> missing_preferred,
        recommendation |->
          _get_coverage_recommendation(required_hit,
                                       Cardinality(required_skills),
                                       missing_required) ]

----------------------------------------------------------------------------
(* core/achievement_library.py *)

\* JSON null.
Null == [ null |-> TRUE ]

\* Achievement.to_dict / CandidateProfile.to_dict: asdict(self), a JSON
\* object holding the fields.
to_dict(obj) == [ dict |-> obj ]

\* Achievement.from_dict / CandidateProfile.from_dict: cls(**data), for a
\* JSON object data.
from_dict(data) == data.dict

\* A file that exists and holds nothing.
EmptyContent == [ kind |-> "empty" ]

\* AchievementLibrary.save: what json.dump writes for self.profile and
\* self.achievements.
save(profile, achievements) ==
  [ kind |-> "json",
    profile |-> IF profile.some THEN to_dict(profile.val) ELSE Null,
    achievements |->
      [ i \in 1..Len(achievements) |-> to_dict(achievements[i]) ] ]

\* AchievementLibrary(data_file): __init__ and load on a file that is absent
\* (None) or holds content. cls(**None) raises TypeError, which load does not
\* catch.
load(file) ==
  IF ~file.some \/ file.val.kind = "empty"
    THEN [ raised |-> FALSE, profile |-> None, achievements |-> <<>> ]
  ELSE IF file.val.profile = Null
    THEN [ raised |-> TRUE, profile |-> None, achievements |-> <<>> ]
  ELSE [ raised |-> FALSE,
         profile |-> Some(from_dict(file.val.profile)),
         achievements |->
           [ i \in 1..Len(file.val.achievements) |->
               from_dict(file.val.achievements[i]) ] ]

\* update_achievement: the index of the first achievement of that id, or 0.
FirstWithId(achievements, achievement_id) ==
  IF \E i \in 1..Len(achievements) : achievements[i].id = achievement_id
    THEN CHOOSE i \in 1..Len(achievements) :
           /\ achievements[i].id = achievement_id
           /\ \A k \in 1..(i - 1) : achievements[k].id # achievement_id
    ELSE 0

\* [a for a in self.achievements if a.id != achievement_id]
RECURSIVE WithoutId(_, _)
WithoutId(achievements, achievement_id) ==
  IF achievements = <<>> THEN <<>>
  ELSE (IF Head(achievements).id # achievement_id
          THEN << Head(achievements) >> ELSE <<>>)
         \o WithoutId(Tail(achievements), achievement_id)

\* The condition of lines 136-138 for one lowercased keyword.
KeywordHit(keyword, achievement) ==
  \/ Member(keyword, LowerAll(achievement.keywords))
  \/ Member(keyword, LowerAll(achievement.skills))
  \/ InText(keyword, AchievementText(achievement))

\* How often the inner loop appends the achievement, without its break.
RECURSIVE SearchHitsNoBreak(_, _)
SearchHitsNoBreak(keywords_lower, achievement) ==
  IF keywords_lower = <<>> THEN 0
  ELSE (IF KeywordHit(Head(keywords_lower), achievement) THEN 1 ELSE 0)
         + SearchHitsNoBreak(Tail(keywords_lower), achievement)

\* How often the inner loop appends the achievement: once, at the first
\* keyword that hits.
SearchHits(keywords_lower, achievement) ==
  IF \E i \in 1..Len(keywords_lower) :
       KeywordHit(keywords_lower[i], achievement)
    THEN 1 ELSE 0

\* search_by_keywords: the results, as the positions in self.achievements of
\* the objects returned.
RECURSIVE SearchFrom(_, _, _)
SearchFrom(achievements, keywords_lower, i) ==
  IF i > Len(achievements) THEN <<>>
  ELSE [ k \in 1..SearchHits(keywords_lower, achievements[i]) |-> i ]
         \o SearchFrom(achievements, keywords_lower, i + 1)

search_by_keywords(achievements, keywords) ==
  SearchFrom(achievements, LowerAll(keywords), 1)

----------------------------------------------------------------------------
(* analysis/ats_analyzer.py: the format check *)

\* check_ats_friendly_format: texts are sequences of these lexemes.
\* "caf\\u00e9" stands for the word with one non-ASCII letter, Hashes for a
\* run of 25 '#' characters.
Hashes == "#########################"

\* len(re.findall(r'[^\x00-\x7F]', x)) of a lexeme.
NonAsciiIn(x) == IF x = "caf\\u00e9" THEN 1 ELSE 0

\* len(re.findall(r'[^a-zA-Z0-9\s\.,;:\-\(\)]', x)) of a lexeme.
SpecialIn(x) ==
  CASE x = "caf\\u00e9" -> 1
    [] x = "#" -> 1
    [] x = Hashes -> 25
    [] OTHER -> 0

\* '\t' in x
TabIn(x) == x = "\t"

RECURSIVE NonAsciiCount(_)
NonAsciiCount(t) ==
  IF t = <<>> THEN 0 ELSE NonAsciiIn(Head(t)) + NonAsciiCount(Tail(t))

RECURSIVE special_char_count(_)
special_char_count(t) ==
  IF t = <<>> THEN 0 ELSE SpecialIn(Head(t)) + special_char_count(Tail(t))

SpecialLimit == 50

standard_sections == << "experience", "education", "skills", "summary" >>

\* [s for s in sections if keep(s)]
RECURSIVE SectionsIn(_, _, _)
SectionsIn(sections, t, present) ==
  IF sections = <<>> THEN <<>>
  ELSE (IF InText(Head(sections), t) = present
          THEN << Head(sections) >> ELSE <<>>)
         \o SectionsIn(Tail(sections), t, present)

FormatIssuesIncludingSections(t) ==
  (IF NonAsciiCount(t) > 0 THEN << "non-ascii" >> ELSE <<>>)
    \o (IF special_char_count(t) > SpecialLimit
          THEN << "special" >> ELSE <<>>)
    \o (IF \E i \in 1..Len(t) : TabIn(t[i]) THEN << "tab" >> ELSE <<>>)
    \o (IF SectionsIn(standard_sections, t, FALSE) # <<>>
          THEN << "sections" >> ELSE <<>>)

\* issues, in the order the checks append them.
FormatIssues(t) ==
  (IF NonAsciiCount(t) > 0 THEN << "non-ascii" >> ELSE <<>>)
    \o (IF special_char_count(t) > SpecialLimit
          THEN << "special" >> ELSE <<>>)
    \o (IF \E i \in 1..Len(t) : TabIn(t[i]) THEN << "tab" >> ELSE <<>>)

check_ats_friendly_format(t) ==
  [ is_ats_friendly |-> Len(FormatIssues(t)) = 0,
    issues |-> FormatIssues(t),
    found_standard_sections |-> SectionsIn(standard_sections, t, TRUE),
    missing_standard_sections |-> SectionsIn(standard_sections, t, FALSE) ]

----------------------------------------------------------------------------
(* State *)

VARIABLES
  text,           \* the job text handed to the parser
  common_skills,  \* self.common_skills of each JobParser instance
  calls,          \* the parse calls made on text: instance, title, result
  interleaved,    \* another text was parsed between the two calls
  section_type,   \* the section asked of _extract_section ("none" before)
  items,          \* what _extract_section returned
  achievements,   \* the achievements handed to the matcher
  job,            \* the job handed to the matcher
  top_n,          \* the top_n argument: {} for None, {n} for n
  matched,        \* match_achievements_to_job has returned
  matches,        \* the list it returned
  job_keywords,   \* the keywords handed to ATSAnalyzer.analyze
  document_text,  \* the document handed to it
  job_skills,     \* the job_skills argument (<<>> for None)
  analysed,       \* analyze has returned
  analysis,       \* the ATSAnalysisResult it returned
  achievement,    \* the achievement handed to _score_achievement
  scored,         \* _score_achievement has returned
  components,     \* its locals: the points of each component, max_score
  result,         \* the MatchResult it returned
  filtered,       \* what filter_by_threshold returned, if called
  grouped,        \* what group_by_category returned, if called
  report,         \* what get_coverage_report returned, if called
  pc,             \* where each concurrent call stands
  outcome,        \* what each concurrent call returned
  format_check,   \* what check_ats_friendly_format returned, if called
  library,        \* an AchievementLibrary: self.profile, self.achievements
  data_file,      \* the contents of its data file, if the file exists
  reloaded,       \* a new AchievementLibrary built on the same file
  found,          \* what search_by_keywords returned, if called
  applications,   \* the rows of the applications table
  application_events,  \* the rows of the application_events table
  sequence,       \* the last AUTOINCREMENT id of each table
  pending,        \* the add_event calls create / update have yet to make
  tables,         \* the class attributes STOP_WORDS and SECTION_PATTERNS
  called          \* the last call that changed the library, and its arguments

parserVars == << common_skills, calls, interleaved >>
sectionVars == << section_type, items >>
matcherVars == << achievements, job, top_n, matched, matches >>
atsVars == << job_keywords, document_text, job_skills, analysed, analysis >>
scoreVars == << achievement, scored, components, result >>
reportVars == << filtered, grouped, report >>
concVars == << pc, outcome, tables >>
formatVars == << format_check >>
libraryVars == << library, data_file, reloaded, found, called >>
trackerVars == << applications, application_events, sequence, pending >>

vars ==
  << text, parserVars, sectionVars, matcherVars, atsVars, scoreVars,
     reportVars, concVars, formatVars, libraryVars, trackerVars >>

----------------------------------------------------------------------------
(* Inputs *)

\* The lexemes of the enumerated job texts.
Alphabet ==
  { NL, SP, "-", "Requirements", "Preferred", "Python", ": Docker, AWS",
    "docker and aws knowledge", "5+ years" }

\* "5+ years of Python experience... Preferred: Docker, AWS"
SpecScenario ==
  << "5+ years", SP, "of", SP, "Python", SP, "experience", SP, "Preferred",
     ": Docker, AWS" >>

\* A posting with a bulleted requirement, a bulleted preference and the
\* optional fields.
BulletScenario ==
  << "Requirements", NL, "-", SP, "5+ years", SP, "of", SP, "experience", NL,
     "Preferred", NL, "*", SP, "docker and aws knowledge", NL,
     "remote", SP, "Master's", SP, "$90k" >>

Texts == SeqUpTo(Alphabet, MaxTextLen) \cup { SpecScenario, BulletScenario }

\* Texts of other postings, parsed in between.
OtherTexts == { <<"Python">>, <<"Preferred", SP, "docker and aws knowledge">> }

\* The JobParser instances, and the title arguments.
Parsers == { "parser1", "parser2" }
Titles == { "", "Senior Engineer" }

\* The lines of a generated long section.
LineKinds ==
  << << "-", SP, "docker and aws knowledge", NL >>,
     << "1.", SP, ": Docker, AWS", NL >>,
     << "*", SP, "Python", NL >>,
     << "docker and aws knowledge", SP, "Python", NL >> >>

RECURSIVE Rep(_, _)
Rep(line, n) == IF n = 0 THEN <<>> ELSE line \o Rep(line, n - 1)

\* A requirements heading, then a lines of kind j and b lines of kind k.
LongText(j, a, k, b) ==
  << "Requirements", NL >> \o Rep(LineKinds[j], a) \o Rep(LineKinds[k], b)

LongTexts ==
  { LongText(c[1], c[2], c[3], c[4]) :
      c \in { d \in (1..Len(LineKinds)) \X (0..MaxRep)
                     \X (1..Len(LineKinds)) \X (0..MaxRep) :
                d[2] + d[4] <= MaxRep + 1 } }

\* A requirements heading and one marked line, plain or indented and
\* followed by another heading, for each marker character.
MarkerTexts ==
  { << "Requirements", NL, g, SP, "docker and aws knowledge" >> :
      g \in BulletMarkers \cup { "\\u2022" } }
  \cup
  { << "Requirements", NL, SP, g, SP, "docker and aws knowledge", NL,
       "Preferred" >> : g \in BulletMarkers \cup { "\\u2022" } }

SectionTexts == LongTexts \cup Texts \cup MarkerTexts

\* The jobs handed to the matcher (the fields it reads).
MatcherJob(title, required, preferred, requirements, responsibilities) ==
  [ title |-> title, skills_required |-> required,
    skills_preferred |-> preferred, requirements |-> requirements,
    responsibilities |-> responsibilities ]

EmptyJob == MatcherJob("", <<>>, <<>>, <<>>, <<>>)

Jobs ==
  { EmptyJob,
    MatcherJob("Senior Python Developer", <<"Python", "AWS">>, <<"Docker">>,
               <<>>, <<>>),
    MatcherJob("", <<"Python", "AWS">>, <<>>, <<>>, <<>>),
    MatcherJob("Engineering Manager", <<>>, <<"Docker">>,
               <<"Experience with AWS">>, <<>>),
    MatcherJob("Data Analyst", <<"Python">>, <<>>, <<>>,
               <<"Experience with AWS">>) }

\* The achievements: every category that has a branch in the category
\* relevance test with every skill list, and one of a category that has
\* none.
Categories == { "technical", "leadership", "project" }

SkillLists ==
  { <<>>, <<"Python">>, <<"python", "AWS", "Docker">>, <<"Python", "PYTHON">> }

AchievementPool ==
  { [ title |-> "Python Developer",
      description |-> "Developed Python applications",
      category |-> c, skills |-> sk, keywords |-> <<"aws", "development">> ] :
      c \in Categories, sk \in SkillLists }
  \cup
  { [ title |-> "Python Developer",
      description |-> "Developed Python applications",
      category |-> "certification", skills |-> <<"Python">>,
      keywords |-> <<"aws", "development">> ] }

\* Lists of at most MaxAchievements achievements; the id is the position.
AchievementLists ==
  { [i \in DOMAIN l |->
       [ id |-> i, title |-> l[i].title, description |-> l[i].description,
         category |-> l[i].category, skills |-> l[i].skills,
         keywords |-> l[i].keywords ]] :
      l \in SeqUpTo(AchievementPool, MaxAchievements) }

TopNs == { {} } \cup { {n} : n \in 0..MaxAchievements }

\* The inputs of a single _score_achievement call: every category with
\* every skill list, one of them naming a preferred skill twice, against
\* the jobs above and two jobs that supply a title and nothing else.
NoAchievement ==
  [ id |-> 0, title |-> "", description |-> "", category |-> "",
    skills |-> <<>>, keywords |-> <<>> ]

ScoreAchievements ==
  { [ id |-> 1, title |-> "Python Developer",
      description |-> "Developed Python applications",
      category |-> c, skills |-> sk, keywords |-> <<"aws", "development">> ] :
      c \in Categories \cup { "certification" },
      sk \in SkillLists \cup { <<"Docker", "docker">> } }

ScoreJobs ==
  Jobs \cup { MatcherJob("Engineering Manager", <<>>, <<>>, <<>>, <<>>),
             MatcherJob("Data Analyst", <<>>, <<>>, <<>>, <<>>) }

\* The inputs of the auxiliary operations: lists of at most MaxReportLen
\* achievements, one of each category, and the cutoffs 0.3 (the default)
\* and 1.
ReportPool ==
  { [ title |-> "Python Developer",
      description |-> "Developed Python applications",
      category |-> a[1], skills |-> a[2],
      keywords |-> <<"aws", "development">> ] :
      a \in { << "technical", <<"python", "AWS", "Docker">> >>,
              << "leadership", <<"Python">> >>,
              << "project", <<>> >>,
              << "certification", <<"Python", "PYTHON">> >> } }

ReportLists ==
  { [i \in DOMAIN l |->
       [ id |-> i, title |-> l[i].title, description |-> l[i].description,
         category |-> l[i].category, skills |-> l[i].skills,
         keywords |-> l[i].keywords ]] :
      l \in SeqUpTo(ReportPool, MaxReportLen) }

Thresholds == { [num |-> 3, den |-> 10], [num |-> 1, den |-> 1] }

\* The analyzer's inputs.
KeywordPool == { "Python", "python", "AWS", "Docker" }

\* Four spellings that each occur once in DocScenario, and six keywords
\* that no document of the model holds.
KeywordScenarios ==
  { << "Python", "python", "AWS", "Aws" >>,
    << "docker", "kubernetes", "terraform", "golang", "rust", "java" >> }

KeywordLists == SeqUpTo(KeywordPool, MaxKeywords) \cup KeywordScenarios

\* "I used Python and AWS daily"
DocScenario ==
  << "I used", SP, "Python", SP, "and", SP, "AWS", SP, "daily" >>

Documents ==
  SeqUpTo({ "Python", "PYTHON", "AWS", "daily" }, MaxDocLen) \cup { DocScenario }

SkillArguments ==
  { <<>>, <<"Python", "Docker">>,
    <<"docker", "kubernetes", "terraform", "golang">> }


----------------------------------------------------------------------------
(* The parser: JobParser() instances and parse calls on one job text *)

\* JobParser.__init__ of every instance; nothing parsed yet.
ParserIdle ==
  /\ common_skills = [p \in Parsers |-> _load_common_skills]
  /\ calls = <<>>
  /\ interleaved = FALSE

SectionIdle ==
  /\ section_type = "none"
  /\ items = <<>>

\* No matcher call and no analyzer call, on empty inputs.
MatcherIdle ==
  /\ achievements = <<>>
  /\ job = EmptyJob
  /\ top_n = {}
  /\ matched = FALSE
  /\ matches = <<>>

AnalyzerIdle ==
  /\ job_keywords = <<>>
  /\ document_text = <<>>
  /\ job_skills = <<>>
  /\ analysed = FALSE
  /\ analysis = analyze(<<>>, <<>>, <<>>)

\* No _score_achievement call of its own, and no call of the auxiliary
\* operations.
ScoreIdle ==
  /\ achievement = NoAchievement
  /\ scored = FALSE
  /\ components = <<>>
  /\ result = <<>>

ReportIdle ==
  /\ filtered = None
  /\ grouped = None
  /\ report = None

\* The calls that run concurrently: two parse calls on one JobParser, a
\* match_achievements_to_job call and an analyze call.
Threads == { "parse1", "parse2", "match", "analyze" }

\* The class attributes as the class bodies leave them.
ClassTables ==
  [ STOP_WORDS |-> STOP_WORDS, SECTION_PATTERNS |-> SECTION_PATTERNS ]

ConcIdle ==
  /\ pc = [t \in Threads |-> "idle"]
  /\ outcome = [t \in Threads |-> None]
  /\ tables = ClassTables

FormatIdle == format_check = None

\* No library object yet and no data file.
LibraryIdle ==
  /\ library = None
  /\ data_file = None
  /\ reloaded = None
  /\ found = None
  /\ called = None

\* The database before _init_database: no row in either table.
TrackerIdle ==
  /\ applications = {}
  /\ application_events = {}
  /\ sequence = [applications |-> 0, application_events |-> 0]
  /\ pending = {}

InitParse ==
  /\ text \in Texts
  /\ ParserIdle
  /\ SectionIdle
  /\ MatcherIdle
  /\ AnalyzerIdle
  /\ ScoreIdle
  /\ ReportIdle
  /\ ConcIdle
  /\ FormatIdle
  /\ LibraryIdle
  /\ TrackerIdle

\* parser.parse(text, "job1", title, "Acme"): the first call picks the
\* title, the second repeats the first call's arguments.
Parse(p) ==
  /\ Len(calls) < 2
  /\ \E title \in (IF calls = <<>> THEN Titles ELSE { calls[1].title }) :
       calls' = Append(calls,
                  [ parser |-> p, title |-> title,
                    job |-> parse(common_skills[p], text, "job1", title,
                                  "Acme") ])
  /\ common_skills' =
       [common_skills EXCEPT ![p] = SkillsAfterParse(@, text)]
  /\ UNCHANGED << text, interleaved, sectionVars, matcherVars, atsVars,
                  scoreVars, reportVars,
                  concVars, formatVars, libraryVars, trackerVars >>

\* parser.parse(other, ...): a call on another posting; its result goes to
\* its own caller.
ParseOther(p, other) ==
  /\ common_skills' =
       [common_skills EXCEPT ![p] = SkillsAfterParse(@, other)]
  /\ interleaved' = (interleaved \/ Len(calls) = 1)
  /\ UNCHANGED << text, calls, sectionVars, matcherVars, atsVars, scoreVars,
                  reportVars,
                  concVars, formatVars, libraryVars, trackerVars >>

NextParse ==
  \/ \E p \in Parsers : Parse(p)
  \/ \E p \in Parsers, other \in OtherTexts : ParseOther(p, other)

SpecParse == InitParse /\ [][NextParse]_vars

----------------------------------------------------------------------------
(* The section extractor on long sections *)

InitSection ==
  /\ text \in SectionTexts
  /\ ParserIdle
  /\ SectionIdle
  /\ MatcherIdle
  /\ AnalyzerIdle
  /\ ScoreIdle
  /\ ReportIdle
  /\ ConcIdle
  /\ FormatIdle
  /\ LibraryIdle
  /\ TrackerIdle

\* self._extract_section(text, s)
ExtractSection(s) ==
  /\ section_type = "none"
  /\ section_type' = s
  /\ items' = _extract_section(text, s)
  /\ UNCHANGED << text, parserVars, matcherVars, atsVars, scoreVars,
                  reportVars,
                  concVars, formatVars, libraryVars, trackerVars >>

NextSectionCall == \E s \in DOMAIN SECTION_PATTERNS : ExtractSection(s)

SpecSection == InitSection /\ [][NextSectionCall]_vars

----------------------------------------------------------------------------
(* The matcher *)

InitMatch ==
  /\ achievements \in AchievementLists
  /\ job \in Jobs
  /\ top_n = {}
  /\ matched = FALSE
  /\ matches = <<>>
  /\ text = <<>>
  /\ ParserIdle
  /\ SectionIdle
  /\ AnalyzerIdle
  /\ ScoreIdle
  /\ ReportIdle
  /\ ConcIdle
  /\ FormatIdle
  /\ LibraryIdle
  /\ TrackerIdle

\* matcher.match_achievements_to_job(achievements, job, top_n)
Match(n) ==
  /\ ~matched
  /\ matched' = TRUE
  /\ top_n' = n
  /\ matches' = match_achievements_to_job(achievements, job, n)
  /\ UNCHANGED << text, parserVars, sectionVars, achievements, job, atsVars,
                  scoreVars, reportVars,
                  concVars, formatVars, libraryVars, trackerVars >>

NextMatch == \E n \in TopNs : Match(n)

SpecMatch == InitMatch /\ [][NextMatch]_vars

----------------------------------------------------------------------------
(* One call of _score_achievement *)

InitScore ==
  /\ achievement \in ScoreAchievements
  /\ job \in ScoreJobs
  /\ achievements = <<>>
  /\ top_n = {}
  /\ matched = FALSE
  /\ matches = <<>>
  /\ scored = FALSE
  /\ components = <<>>
  /\ result = <<>>
  /\ text = <<>>
  /\ ParserIdle
  /\ SectionIdle
  /\ AnalyzerIdle
  /\ ReportIdle
  /\ ConcIdle
  /\ FormatIdle
  /\ LibraryIdle
  /\ TrackerIdle

\* self._score_achievement(achievement, job, job_keywords), with the
\* job_keywords match_achievements_to_job hands it.
Score ==
  /\ ~scored
  /\ scored' = TRUE
  /\ components' = Parts(achievement, job, _extract_job_keywords(job))
  /\ result' = _score_achievement(achievement, job, _extract_job_keywords(job))
  /\ UNCHANGED << text, parserVars, sectionVars, matcherVars, atsVars,
                  achievement, reportVars,
                  concVars, formatVars, libraryVars, trackerVars >>

NextScore == Score

SpecScore == InitScore /\ [][NextScore]_vars

----------------------------------------------------------------------------
(* The matcher and its auxiliary operations on the list it returned *)

InitReport ==
  /\ achievements \in ReportLists
  /\ job \in Jobs
  /\ top_n = {}
  /\ matched = FALSE
  /\ matches = <<>>
  /\ text = <<>>
  /\ ParserIdle
  /\ SectionIdle
  /\ AnalyzerIdle
  /\ ScoreIdle
  /\ ReportIdle
  /\ ConcIdle
  /\ FormatIdle
  /\ LibraryIdle
  /\ TrackerIdle

\* matcher.filter_by_threshold(matches, cutoff)
FilterByThreshold(cutoff) ==
  /\ matched
  /\ filtered' = Some(filter_by_threshold(matches, cutoff))
  /\ matches' = MatchesAfterFilter(matches, cutoff)
  /\ UNCHANGED << text, parserVars, sectionVars, achievements, job, top_n,
                  matched, atsVars, scoreVars, grouped, report,
                  concVars, formatVars, libraryVars, trackerVars >>

\* matcher.group_by_category(matches)
GroupByCategory ==
  /\ matched
  /\ grouped' = Some(group_by_category(matches))
  /\ UNCHANGED << text, parserVars, sectionVars, matcherVars, atsVars,
                  scoreVars, filtered, report,
                  concVars, formatVars, libraryVars, trackerVars >>

\* matcher.get_coverage_report(matches, job)
GetCoverageReport ==
  /\ matched
  /\ report' = Some(get_coverage_report(matches, job))
  /\ UNCHANGED << text, parserVars, sectionVars, matcherVars, atsVars,
                  scoreVars, filtered, grouped,
                  concVars, formatVars, libraryVars, trackerVars >>

NextReport ==
  \/ \E n \in TopNs : Match(n)
  \/ \E cutoff \in Thresholds : FilterByThreshold(cutoff)
  \/ GroupByCategory
  \/ GetCoverageReport

SpecReport == InitReport /\ [][NextReport]_vars

----------------------------------------------------------------------------
(* The achievement library *)

Profiles ==
  { [ name |-> "Test User", email |-> "test@example.com",
      phone |-> "555-1234" ],
    [ name |-> "Other User", email |-> "other@example.com",
      phone |-> "555-9876" ] }

\* The achievements handed to add_achievement and update_achievement; two
\* of them share an id, which nothing forbids.
LibraryPool ==
  { [ id |-> "ach_1", title |-> "Python Developer",
      description |-> "Developed Python applications",
      category |-> "technical", skills |-> << "Python" >>,
      keywords |-> << "aws", "development" >> ],
    [ id |-> "ach_2", title |-> "Engineering Manager",
      description |-> "I used", category |-> "leadership",
      skills |-> << "Docker" >>, keywords |-> <<>> ],
    [ id |-> "ach_1", title |-> "Data Analyst", description |-> "",
      category |-> "project", skills |-> <<>>,
      keywords |-> << "Python" >> ] }

Ids == { a.id : a \in LibraryPool }

Queries ==
  { <<>>, << "python" >>, << "AWS", "Python" >>, << "manager" >>,
    << "Docker", "development" >>, << "kubernetes" >> }

\* AchievementLibrary(data_file) on a file that is absent or empty.
InitLibrary ==
  /\ data_file \in { None, Some(EmptyContent) }
  /\ library = Some([ profile |-> None, achievements |-> <<>> ])
  /\ reloaded = None
  /\ found = None
  /\ called = None
  /\ text = <<>>
  /\ ParserIdle
  /\ SectionIdle
  /\ MatcherIdle
  /\ AnalyzerIdle
  /\ ScoreIdle
  /\ ReportIdle
  /\ ConcIdle
  /\ FormatIdle
  /\ TrackerIdle

\* What a call that changes the library leaves behind.
Changed(op, arg, lib) ==
  /\ library' = Some(lib)
  /\ data_file' = Some(save(lib.profile, lib.achievements))
  /\ called' =
       Some([ op |-> op, arg |-> arg,
              before |-> library.val.achievements,
              profile |-> IF op = "set_profile" THEN Some(arg)
                          ELSE IF called.some THEN called.val.profile
                          ELSE None ])
  /\ reloaded' = None
  /\ found' = None
  /\ UNCHANGED << text, parserVars, sectionVars, matcherVars, atsVars,
                  scoreVars, reportVars, concVars, formatVars, trackerVars >>

\* library.set_profile(p)
SetProfile(p) ==
  /\ library.some
  /\ Changed("set_profile", p, [ library.val EXCEPT !.profile = Some(p) ])

\* library.add_achievement(a), a being a new object
AddAchievement(a) ==
  /\ Len(library.val.achievements) < MaxLibrary
  /\ Changed("add_achievement", a,
             [ library.val EXCEPT !.achievements = Append(@, a) ])

\* library.update_achievement(id, updated), when it returns True
UpdateAchievement(id, updated) ==
  /\ FirstWithId(library.val.achievements, id) # 0
  /\ Changed("update_achievement", updated,
             [ library.val EXCEPT
                 !.achievements[FirstWithId(library.val.achievements, id)] =
                   updated ])

\* library.delete_achievement(id), when it returns True
DeleteAchievement(id) ==
  /\ Len(WithoutId(library.val.achievements, id))
       < Len(library.val.achievements)
  /\ Changed("delete_achievement", id,
             [ library.val EXCEPT !.achievements = WithoutId(@, id) ])

\* library.search_by_keywords(keywords)
SearchByKeywords(keywords) ==
  /\ found' =
       Some([ keywords |-> keywords,
              results |->
                search_by_keywords(library.val.achievements, keywords) ])
  /\ UNCHANGED << text, parserVars, sectionVars, matcherVars, atsVars,
                  scoreVars, reportVars, concVars, formatVars, library,
                  data_file, reloaded, called, trackerVars >>

\* AchievementLibrary(data_file) once more, on the same file
Reload ==
  /\ reloaded' = Some(load(data_file))
  /\ UNCHANGED << text, parserVars, sectionVars, matcherVars, atsVars,
                  scoreVars, reportVars, concVars, formatVars, library,
                  data_file, found, called, trackerVars >>

NextLibrary ==
  \/ \E p \in Profiles : SetProfile(p)
  \/ \E a \in LibraryPool : AddAchievement(a)
  \/ \E id \in Ids, updated \in LibraryPool : UpdateAchievement(id, updated)
  \/ \E id \in Ids : DeleteAchievement(id)
  \/ \E keywords \in Queries : SearchByKeywords(keywords)
  \/ Reload

SpecLibrary == InitLibrary /\ [][NextLibrary]_vars

----------------------------------------------------------------------------
(* The application tracker: one database, calls from any number of callers.
   Each connection commits on its own, so the add_event call that ends
   create_application and update_application is a step of its own. *)

\* The ids callers pass: those of rows that exist, existed or never did.
ApplicationIds == 1..(MaxApplications + 1)

Statuses == { "draft", "submitted" }

\* The add_event calls create_application and update_application make.
PendingCalls ==
  [ application_id : ApplicationIds,
    event_type : { "created", "status_change" } ]

\* ApplicationTracker(db_path): _init_database creates two empty tables.
InitTracker ==
  /\ applications = {}
  /\ application_events = {}
  /\ sequence = [ applications |-> 0, application_events |-> 0 ]
  /\ pending = {}
  /\ text = <<>>
  /\ ParserIdle
  /\ SectionIdle
  /\ MatcherIdle
  /\ AnalyzerIdle
  /\ ScoreIdle
  /\ ReportIdle
  /\ ConcIdle
  /\ FormatIdle
  /\ LibraryIdle

\* INSERT INTO application_events ...; commit.  No foreign key is enforced:
\* the connection never sets PRAGMA foreign_keys.
InsertEvent(application_id, event_type) ==
  /\ sequence.application_events < MaxEvents
  /\ application_events' =
       application_events \cup
         { [ id |-> sequence.application_events + 1,
             application_id |-> application_id,
             event_type |-> event_type ] }
  /\ sequence' = [ sequence EXCEPT !.application_events = @ + 1 ]

\* create_application, up to its commit
CreateApplication(status) ==
  /\ sequence.applications < MaxApplications
  /\ Cardinality(pending) < MaxPending
  /\ applications' =
       applications \cup
         { [ id |-> sequence.applications + 1, status |-> status ] }
  /\ sequence' = [ sequence EXCEPT !.applications = @ + 1 ]
  /\ pending' =
       pending \cup { [ application_id |-> sequence.applications + 1,
                        event_type |-> "created" ] }
  /\ UNCHANGED << text, parserVars, sectionVars, matcherVars, atsVars,
                  scoreVars, reportVars, concVars, formatVars, libraryVars,
                  application_events >>

\* update_application(application_id, {'status': status}), up to its commit
UpdateApplication(application_id, status) ==
  /\ Cardinality(pending) < MaxPending
  /\ applications' =
       { IF a.id = application_id THEN [ a EXCEPT !.status = status ] ELSE a :
           a \in applications }
  /\ pending' =
       pending \cup { [ application_id |-> application_id,
                        event_type |-> "status_change" ] }
  /\ UNCHANGED << text, parserVars, sectionVars, matcherVars, atsVars,
                  scoreVars, reportVars, concVars, formatVars, libraryVars,
                  application_events, sequence >>

\* The self.add_event(...) call that ends create_application and
\* update_application.
FinishCall(call) ==
  /\ call \in pending
  /\ InsertEvent(call.application_id, call.event_type)
  /\ pending' = pending \ { call }
  /\ UNCHANGED << text, parserVars, sectionVars, matcherVars, atsVars,
                  scoreVars, reportVars, concVars, formatVars, libraryVars,
                  applications >>

\* add_event(application_id, 'note', ...)
AddEvent(application_id) ==
  /\ InsertEvent(application_id, "note")
  /\ UNCHANGED << text, parserVars, sectionVars, matcherVars, atsVars,
                  scoreVars, reportVars, concVars, formatVars, libraryVars,
                  applications, pending >>

\* delete_application(application_id): both DELETEs, one commit
DeleteApplication(application_id) ==
  /\ application_events' =
       { e \in application_events : e.application_id # application_id }
  /\ applications' = { a \in applications : a.id # application_id }
  /\ UNCHANGED << text, parserVars, sectionVars, matcherVars, atsVars,
                  scoreVars, reportVars, concVars, formatVars, libraryVars,
                  sequence, pending >>

NextTracker ==
  \/ \E status \in Statuses : CreateApplication(status)
  \/ \E id \in ApplicationIds, status \in Statuses :
       UpdateApplication(id, status)
  \/ \E call \in PendingCalls : FinishCall(call)
  \/ \E id \in ApplicationIds : AddEvent(id)
  \/ \E id \in ApplicationIds : DeleteApplication(id)

SpecTracker == InitTracker /\ [][NextTracker]_vars

----------------------------------------------------------------------------
(* The format check *)

FormatAlphabet ==
  { "Experience", "EDUCATION", "skills", "Summary:", "\t", "caf\\u00e9",
    "#", Hashes, SP, "Python" }

FormatTexts == SeqUpTo(FormatAlphabet, MaxFormatLen)

InitFormat ==
  /\ text \in FormatTexts
  /\ ParserIdle
  /\ SectionIdle
  /\ MatcherIdle
  /\ AnalyzerIdle
  /\ ScoreIdle
  /\ ReportIdle
  /\ ConcIdle
  /\ FormatIdle
  /\ LibraryIdle
  /\ TrackerIdle

\* analyzer.check_ats_friendly_format(text)
CheckFormat ==
  /\ format_check = None
  /\ format_check' = Some(check_ats_friendly_format(text))
  /\ UNCHANGED << text, parserVars, sectionVars, matcherVars, atsVars,
                  scoreVars, reportVars, concVars, libraryVars,
                  trackerVars >>

NextFormat == CheckFormat

SpecFormat == InitFormat /\ [][NextFormat]_vars

----------------------------------------------------------------------------
(* Concurrent calls: each call begins, and later reads its inputs and the
   tables and returns, with the steps of the other calls in between *)

\* The posting of the second parse call.
ConcurrentOther == << "Preferred", SP, "docker and aws knowledge" >>

ConcurrentTexts == { SpecScenario, BulletScenario, << "Python" >> }

\* The text a parse call is given.
TextOf(t, posting) == IF t = "parse1" THEN posting ELSE ConcurrentOther

InitConcurrent ==
  /\ text \in ConcurrentTexts
  /\ achievements \in ReportLists
  /\ job \in { EmptyJob,
               MatcherJob("Senior Python Developer", <<"Python", "AWS">>,
                          <<"Docker">>, <<>>, <<>>) }
  /\ top_n = {}
  /\ matched = FALSE
  /\ matches = <<>>
  /\ job_keywords \in { <<>>, << "Python", "AWS", "Docker" >> }
  /\ document_text = DocScenario
  /\ job_skills = <<>>
  /\ analysed = FALSE
  /\ analysis = analyze(<<>>, <<>>, <<>>)
  /\ ParserIdle
  /\ SectionIdle
  /\ ScoreIdle
  /\ ReportIdle
  /\ ConcIdle
  /\ FormatIdle
  /\ LibraryIdle
  /\ TrackerIdle

\* A call is entered.
Begin(t) ==
  /\ pc[t] = "idle"
  /\ pc' = [pc EXCEPT ![t] = "running"]
  /\ UNCHANGED << text, parserVars, sectionVars, matcherVars, atsVars,
                  scoreVars, reportVars, outcome, tables, formatVars,
                  libraryVars, trackerVars >>

\* parser1.parse(...) returns: it read self.common_skills as it is now.
FinishParse(t) ==
  /\ t \in { "parse1", "parse2" }
  /\ pc[t] = "running"
  /\ pc' = [pc EXCEPT ![t] = "done"]
  /\ outcome' =
       [outcome EXCEPT ![t] =
          Some(parse(common_skills["parser1"], TextOf(t, text), t, "",
                     "Acme"))]
  /\ common_skills' =
       [common_skills EXCEPT
          !["parser1"] = SkillsAfterParse(@, TextOf(t, text))]
  /\ UNCHANGED << tables, text, calls, interleaved, sectionVars, matcherVars,
                  atsVars, scoreVars, reportVars, formatVars, libraryVars,
                  trackerVars >>

\* matcher.match_achievements_to_job(achievements, job) returns.
FinishMatch ==
  /\ pc["match"] = "running"
  /\ pc' = [pc EXCEPT !["match"] = "done"]
  /\ outcome' =
       [outcome EXCEPT
          !["match"] = Some(match_achievements_to_job(achievements, job, {}))]
  /\ UNCHANGED << tables, text, parserVars, sectionVars, matcherVars, atsVars,
                  scoreVars, reportVars, formatVars, libraryVars,
                  trackerVars >>

\* analyzer.analyze(job_keywords, document_text) returns.
FinishAnalyze ==
  /\ pc["analyze"] = "running"
  /\ pc' = [pc EXCEPT !["analyze"] = "done"]
  /\ outcome' =
       [outcome EXCEPT
          !["analyze"] = Some(analyze(job_keywords, document_text,
                                      job_skills))]
  /\ UNCHANGED << tables, text, parserVars, sectionVars, matcherVars, atsVars,
                  scoreVars, reportVars, formatVars, libraryVars,
                  trackerVars >>

NextConcurrent ==
  \/ \E t \in Threads : Begin(t)
  \/ \E t \in Threads : FinishParse(t)
  \/ FinishMatch
  \/ FinishAnalyze

SpecConcurrent == InitConcurrent /\ [][NextConcurrent]_vars

----------------------------------------------------------------------------
(* The analyzer *)

InitAnalyze ==
  /\ job_keywords \in KeywordLists
  /\ document_text \in Documents
  /\ job_skills \in SkillArguments
  /\ analysed = FALSE
  /\ analysis = analyze(<<>>, <<>>, <<>>)
  /\ text = <<>>
  /\ ParserIdle
  /\ SectionIdle
  /\ MatcherIdle
  /\ ScoreIdle
  /\ ReportIdle
  /\ ConcIdle
  /\ FormatIdle
  /\ LibraryIdle
  /\ TrackerIdle

\* analyzer.analyze(job_keywords, document_text, job_skills)
Analyze ==
  /\ ~analysed
  /\ analysed' = TRUE
  /\ analysis' = analyze(job_keywords, document_text, job_skills)
  /\ UNCHANGED << text, parserVars, sectionVars, matcherVars, job_keywords,
                  document_text, job_skills, scoreVars, reportVars,
                  concVars, formatVars, libraryVars, trackerVars >>

NextAnalyze == Analyze

SpecAnalyze == InitAnalyze /\ [][NextAnalyze]_vars

----------------------------------------------------------------------------
(* Properties of the parser *)

Vocabulary == { _load_common_skills[i] : i \in 1..Len(_load_common_skills) }

\* How often a skill is listed, whatever the case.
SkillCount(skill, list) ==
  Cardinality({ i \in 1..Len(list) : Lower(list[i]) = Lower(skill) })

Listed(skill, list) == \E i \in 1..Len(list) : list[i] = skill

\* C3: after parse, a vocabulary skill that occurs in the text (whatever
\* the case) is listed exactly once, in exactly one of skills_required and
\* skills_preferred; a skill that does not occur is in neither; the two
\* lists share no member, whatever the case.
C3_SkillInExactlyOneBucket ==
  \A k \in 1..Len(calls) :
    LET parsed == calls[k].job
        required == parsed.skills_required
        preferred == parsed.skills_preferred
    IN  /\ \A skill \in Vocabulary :
             SkillCount(skill, required) + SkillCount(skill, preferred)
               = (IF InText(Lower(skill), text) THEN 1 ELSE 0)
        /\ \A i \in 1..Len(required), j \in 1..Len(preferred) :
             Lower(required[i]) # Lower(preferred[j])

\* A parse that classified one skill as required and another as preferred.
C3_Witness ==
  \E k \in 1..Len(calls) :
    /\ calls[k].job.skills_required # <<>>
    /\ calls[k].job.skills_preferred # <<>>

\* The text of the Preferred section: after the preferred heading, up to
\* the next heading.
InPreferredSection(skill) ==
  /\ Search(SECTION_PATTERNS.preferred, text) > 0
  /\ InText(Lower(skill), SectionText(text, "preferred"))

\* C4: a vocabulary skill named inside the Preferred section, bulleted or
\* inline, is classified into skills_preferred; a skill named only outside
\* that section is classified into skills_required.
C4_PreferredSectionDecides ==
  \A k \in 1..Len(calls) : \A skill \in Vocabulary :
    /\ InPreferredSection(skill) =>
         Listed(skill, calls[k].job.skills_preferred)
    /\ (InText(Lower(skill), text) /\ ~InPreferredSection(skill)) =>
         Listed(skill, calls[k].job.skills_required)

\* The span C6 describes: from the end of the first heading match to the
\* smallest start offset of a heading match of any other section.
ClaimedSpan(t, s) ==
  LET remaining == SubSeq(t, Search(SECTION_PATTERNS[s], t) + 1, Len(t))
      hits == { Search(SECTION_PATTERNS[x], remaining) - 1 :
                  x \in { y \in DOMAIN SECTION_PATTERNS \ {s} :
                            Search(SECTION_PATTERNS[y], remaining) > 0 } }
  IN  IF hits = {} THEN remaining
      ELSE SubSeq(remaining, 1, CHOOSE n \in hits : \A o \in hits : n <= o)

\* C6: the requirements parse returns are the items of the span that ends
\* at the nearest heading of another section; a later match of the
\* section's own heading does not end it.
C6_SpanEndsAtOtherHeading ==
  \A k \in 1..Len(calls) :
    Search(SECTION_PATTERNS.requirements, text) > 0 =>
      calls[k].job.requirements
        = ExtractItems(ClaimedSpan(text, "requirements"))

NoLongLine ==
  \A i \in 1..Len(Split(text)) : TextLen(Strip(Split(text)[i])) <= DescMinLen

JobFields ==
  { "id", "title", "company", "location", "description", "requirements",
    "responsibilities", "skills_required", "skills_preferred", "education",
    "experience", "salary_range", "job_type", "url", "posted_date",
    "raw_text" }

\* C7: parse returns a JobDescription for every text: id, title, company
\* and raw_text are the arguments, and a field whose pattern matches
\* nothing in the text is an empty list, an empty string or None.
C7_ParseDefaults ==
  \A k \in 1..Len(calls) :
    LET parsed == calls[k].job
    IN  /\ DOMAIN parsed = JobFields
        /\ parsed.id = "job1" /\ parsed.title = calls[k].title
        /\ parsed.company = "Acme" /\ parsed.raw_text = text
        /\ parsed.location = None /\ parsed.url = None /\ parsed.posted_date = None
        /\ NoLongLine => parsed.description = <<>>
        /\ Search(SECTION_PATTERNS.requirements, text) = 0 =>
             parsed.requirements = <<>>
        /\ Search(SECTION_PATTERNS.responsibilities, text) = 0 =>
             parsed.responsibilities = <<>>
        /\ (\A skill \in Vocabulary : ~InText(Lower(skill), text)) =>
             parsed.skills_required = <<>> /\ parsed.skills_preferred = <<>>
        /\ Search(EducationPatterns[2], text) = 0 => parsed.education = None
        /\ (\A i \in 1..Len(text) : Lower(text[i]) \notin YearsLexemes) =>
             parsed.experience = None
        /\ (\A i \in 1..Len(text) : text[i] \notin SalaryLexemes) =>
             parsed.salary_range = None
        /\ (\A i \in 1..Len(job_types) : ~InText(job_types[i], text)) =>
             parsed.job_type = None

\* The empty text has been parsed.
C7_Witness == text = <<>> /\ calls # <<>>

----------------------------------------------------------------------------
(* Properties of the section extractor *)

\* The items occur in t one after the other, from index from on.
RECURSIVE InOrder(_, _, _)
InOrder(its, t, from) ==
  \/ its = <<>>
  \/ \E p \in from..(Len(t) - Len(Head(its)) + 1) :
       /\ SubSeq(t, p, p + Len(Head(its)) - 1) = Head(its)
       /\ InOrder(Tail(its), t, p + Len(Head(its)))

\* The section's text holds no bullet that is kept: the line fallback ran.
FallbackRan ==
  /\ section_type \in DOMAIN SECTION_PATTERNS
  /\ Search(SECTION_PATTERNS[section_type], text) > 0
  /\ KeepBullets(FindBullets(SectionText(text, section_type), 1)) = <<>>

\* C5: _extract_section returns at most 15 items, in the order they occur
\* in the text, each of trimmed length above 10, and above 20 when the
\* line fallback produced it.
C5_ItemsBounded ==
  section_type # "none" =>
    /\ Len(items) <= MaxItems
    /\ InOrder(items, text, 1)
    /\ \A i \in 1..Len(items) :
         /\ TextLen(Strip(items[i])) > MinBulletLen
         /\ FallbackRan => TextLen(Strip(items[i])) > MinLineLen

\* A section of more than 15 kept bullets, of two kinds, was extracted.
C5_Witness ==
  /\ section_type = "requirements"
  /\ Len(items) = MaxItems
  /\ items[1] # items[MaxItems]
  /\ Len(KeepBullets(FindBullets(SectionText(text, "requirements"), 1)))
       > MaxItems

----------------------------------------------------------------------------
(* Properties of the matcher *)

\* The score of result r before the division and the clamp, and its
\* maximum, both scaled as in Parts.
RawScore(r) ==
  LET p == Parts(r.achievement, job, _extract_job_keywords(job))
  IN  [ score |-> p.required_points + p.preferred_points + p.keyword_points
                    + p.category_points,
        max_score |-> p.max_score * p.scale ]

\* C1: every MatchResult returned by match_achievements_to_job has a
\* relevance_score r with 0 <= r <= 1.
C1_ScoreInUnitInterval ==
  matched =>
    \A i \in 1..Len(matches) :
      /\ matches[i].relevance_score.den > 0
      /\ 0 <= matches[i].relevance_score.num
      /\ matches[i].relevance_score.num <= matches[i].relevance_score.den

\* A result whose points exceed the maximum was returned with score 1,
\* next to a result with a score strictly between 0 and 1.
C1_Witness ==
  /\ matched
  /\ \E i \in 1..Len(matches) :
       /\ RawScore(matches[i]).score > RawScore(matches[i]).max_score
       /\ matches[i].relevance_score.num = matches[i].relevance_score.den
  /\ \E i \in 1..Len(matches) :
       /\ 0 < matches[i].relevance_score.num
       /\ matches[i].relevance_score.num < matches[i].relevance_score.den

\* C2: with top_n unset, match_achievements_to_job returns exactly one
\* MatchResult per input achievement (an empty list for no achievement),
\* ordered by relevance_score non-increasing, and results of equal score
\* keep the relative order their achievements had in the input list.
C2_AllSortedStable ==
  (matched /\ top_n = {}) =>
    /\ Len(matches) = Len(achievements)
    /\ achievements = <<>> => matches = <<>>
    /\ \A i \in 1..Len(achievements) :
         Cardinality({ k \in 1..Len(matches) :
                         matches[k].achievement = achievements[i] }) = 1
    /\ \A k \in 1..Len(matches), l \in 1..Len(matches) :
         k < l =>
           /\ Leq(matches[l].relevance_score, matches[k].relevance_score)
           /\ SameScore(matches[k].relevance_score,
                        matches[l].relevance_score)
                => matches[k].achievement.id < matches[l].achievement.id

\* With top_n unset, three results came back: the last achievement of the
\* input moved to the front, ahead of two of equal score.
C2_Witness ==
  /\ matched
  /\ top_n = {}
  /\ Len(matches) = 3
  /\ matches[1].achievement.id = 3
  /\ ~SameScore(matches[1].relevance_score, matches[2].relevance_score)
  /\ SameScore(matches[2].relevance_score, matches[3].relevance_score)
  /\ matches[2].achievement # matches[3].achievement

----------------------------------------------------------------------------
(* Properties of the analyzer *)

\* The entries of list at the positions in S, in list order.
AtPositions(list, S) ==
  [k \in 1..Cardinality(S) |->
     list[CHOOSE i \in S : Cardinality({ j \in S : j < i }) = k - 1]]

\* The positions of the job keywords whose lowercase form is in the
\* lowercased document.
HitPositions ==
  { i \in 1..Len(job_keywords) :
      InText(Lower(job_keywords[i]), document_text) }

\* C9: analyze with an empty keyword list and any document text returns
\* match_score 0 with empty matched and missing lists, and raises no
\* division error.
C9_NoKeywordsScoreZero ==
  (analysed /\ job_keywords = <<>>) =>
    /\ ~analysis.raised
    /\ analysis.match_score = 0
    /\ analysis.matched_keywords = <<>>
    /\ analysis.missing_keywords = <<>>

\* A document that is not empty was analysed against no keyword.
C9_Witness ==
  /\ analysed
  /\ job_keywords = <<>>
  /\ document_text = DocScenario

\* C10: matched_keywords and missing_keywords partition the input keyword
\* list: every keyword occurrence is in exactly one of the two, in input
\* order and with its original casing, and it is in matched_keywords
\* exactly when its lowercase form is a substring of the lowercased
\* document.
C10_KeywordsPartitioned ==
  analysed =>
    /\ analysis.matched_keywords = AtPositions(job_keywords, HitPositions)
    /\ analysis.missing_keywords =
         AtPositions(job_keywords, (1..Len(job_keywords)) \ HitPositions)
    /\ Len(analysis.matched_keywords) + Len(analysis.missing_keywords)
         = Len(job_keywords)

\* "Python", "Docker" and "python" were looked up in a document that
\* holds only "PYTHON": both spellings matched, each as it was given.
C10_Witness ==
  /\ analysed
  /\ job_keywords = << "Python", "Docker", "python" >>
  /\ document_text = << "PYTHON" >>
  /\ analysis.matched_keywords = << "Python", "python" >>
  /\ analysis.missing_keywords = << "Docker" >>

\* C11: for a non-empty keyword list, match_score equals
\* 100 x (matched keywords) / (input keywords) rounded to 2 decimal places
\* (2 of 3 gives 66.67), and it lies in [0, 100].  match_score is held in
\* hundredths: it is an integer nearest to 10000 * matched / total.
C11_ScoreIsRoundedPercentage ==
  (analysed /\ job_keywords # <<>>) =>
    LET hits == Cardinality(HitPositions)
        total == Len(job_keywords)
        diff == analysis.match_score * total - 10000 * hits
    IN  /\ 2 * diff <= total
        /\ -2 * diff <= total
        /\ 0 <= analysis.match_score
        /\ analysis.match_score <= 10000

\* Two of three keywords matched: 66.67, rounded up from 66.666...
C11_Witness ==
  /\ analysed
  /\ Len(job_keywords) = 3
  /\ Cardinality(HitPositions) = 2
  /\ analysis.match_score = 6667

\* The recommendations of the given kinds, in the order they were given.
RECURSIVE OfKinds(_, _)
OfKinds(recs, kinds) ==
  IF recs = <<>> THEN <<>>
  ELSE (IF Head(recs).kind \in kinds THEN <<Head(recs)>> ELSE <<>>)
       \o OfKinds(Tail(recs), kinds)

\* C19: the recommendations are, in this order: exactly one score banner
\* (low when score < 50, moderate when 50 <= score < 70, good when
\* score >= 70); a missing-keywords line exactly when some keyword is
\* missing, naming at most the first 5 missing keywords; a repeat-keywords
\* nudge exactly when more than 3 matched keywords have occurrence count
\* exactly 1; a missing-required-skills line exactly when the skill
\* coverage map has an uncovered skill; and the same two constant
\* formatting tips as the last two entries.
C19_RecommendationsOrdered ==
  analysed =>
    LET recs == analysis.recommendations
        n == Len(recs)
        middle == SubSeq(recs, 2, n - 2)
        once == { k \in DOMAIN analysis.keyword_frequency :
                    analysis.keyword_frequency[k] = 1 }
        lacking == { k \in DOMAIN analysis.skill_coverage :
                       ~analysis.skill_coverage[k] }
        wanted ==
          (IF analysis.missing_keywords # <<>>
           THEN <<"missing keywords">> ELSE <<>>)
          \o (IF Cardinality(once) > 3 THEN <<"repeat keywords">> ELSE <<>>)
          \o (IF lacking # {} THEN <<"missing skills">> ELSE <<>>)
    IN  /\ n >= 3
        /\ recs[1].kind =
             (IF analysis.match_score < 5000 THEN "low"
              ELSE IF analysis.match_score < 7000 THEN "moderate"
              ELSE "good")
        /\ [i \in 1..Len(middle) |-> middle[i].kind] = wanted
        /\ \A i \in 1..Len(middle) :
             middle[i].kind = "missing keywords" =>
               /\ Len(middle[i].names) <= 5
               /\ middle[i].names =
                    SubSeq(analysis.missing_keywords, 1,
                           Len(middle[i].names))
               /\ Len(middle[i].names) =
                    Min(5, Len(analysis.missing_keywords))
        /\ recs[n - 1] = [kind |-> "standard headings", names |-> <<>>]
        /\ recs[n] = [kind |-> "standard fonts", names |-> <<>>]

\* Half of the keywords matched (score exactly 50, the moderate banner),
\* with the missing-keywords and the missing-skills lines.
C19_Witness ==
  /\ analysed
  /\ analysis.match_score = 5000
  /\ [i \in 1..Len(analysis.recommendations) |->
        analysis.recommendations[i].kind]
       = << "moderate", "missing keywords", "missing skills",
            "standard headings", "standard fonts" >>

----------------------------------------------------------------------------
(* Properties of _score_achievement *)

\* The pairs (position of an achievement skill, position of a job skill)
\* that are equal without regard to case.
EqualSkills(skills, wanted) ==
  { pr \in (1..Len(skills)) \X (1..Len(wanted)) :
      Lower(skills[pr[1]]) = Lower(wanted[pr[2]]) }

\* Every one of the job's required skills equals a distinct skill of the
\* achievement.
CoversRequired ==
  \E f \in [1..Len(job.skills_required) -> 1..Len(achievement.skills)] :
    /\ \A i, j \in DOMAIN f : i # j => f[i] # f[j]
    /\ \A i \in DOMAIN f : <<f[i], i>> \in
                             EqualSkills(achievement.skills,
                                         job.skills_required)

\* C12: when every one of the job's N required skills equals (without
\* regard to case) a distinct skill of the achievement, the required-skill
\* component earns its full 40 points (exactly 40 when exactly N
\* achievement skills match); and the denominator of the final score
\* counts 40 only if the job has a required skill, 20 only if it has a
\* preferred skill, 30 only if it has a job keyword, plus the category's
\* 10.  Points are numerators over components.scale.
C12_FullRequiredAndDenominator ==
  scored =>
    /\ (job.skills_required # <<>> /\ CoversRequired) =>
         /\ components.required_points >= 40 * components.scale
         /\ Cardinality({ i \in 1..Len(achievement.skills) :
                            \E pr \in EqualSkills(achievement.skills,
                                                  job.skills_required) :
                              pr[1] = i })
              = Len(job.skills_required)
              => components.required_points = 40 * components.scale
    /\ components.max_score =
         (IF job.skills_required # <<>> THEN 40 ELSE 0)
         + (IF job.skills_preferred # <<>> THEN 20 ELSE 0)
         + (IF _extract_job_keywords(job) # <<>> THEN 30 ELSE 0)
         + 10
    /\ result.relevance_score.den = components.max_score * components.scale

\* Skills python, AWS, Docker against required Python, AWS and no preferred
\* skill: the required component holds 40 points and the denominator is
\* 40 + 30 + 10.
C12_Witness ==
  /\ scored
  /\ job.skills_required = << "Python", "AWS" >>
  /\ job.skills_preferred = <<>>
  /\ achievement.skills = << "python", "AWS", "Docker" >>
  /\ components.required_points = 40 * components.scale
  /\ components.max_score = 80

\* C13: the points earned by the required-skill component never exceed 40
\* and the points earned by the preferred-skill component never exceed 20.
C13_ComponentsBounded ==
  scored =>
    /\ components.required_points <= 40 * components.scale
    /\ components.preferred_points <= 20 * components.scale

\* The job supplied no required skill, no preferred skill and no keyword.
NothingSupplied ==
  /\ job.skills_required = <<>>
  /\ job.skills_preferred = <<>>
  /\ _extract_job_keywords(job) = <<>>

\* C14 as stated: when the job supplied no required skills, no preferred
\* skills and no keywords, the relevance score is 0.
C14_NothingSuppliedScoreZero ==
  (scored /\ NothingSupplied) => result.relevance_score.num = 0

\* C14 as amended: when the job supplied no required skills, no preferred
\* skills and no keywords, the relevance score is the category component's
\* points over 10; it is 0 exactly when that component awards nothing.
C14_NothingSuppliedCategoryOnly ==
  (scored /\ NothingSupplied) =>
    /\ result.relevance_score.num * 10 * components.scale
         = components.category_points * result.relevance_score.den
    /\ result.relevance_score.num = 0 <=> components.category_points = 0

\* A project achievement against a job that supplied only its title:
\* 5 points of 10.
C14_Witness ==
  /\ scored
  /\ NothingSupplied
  /\ achievement.category = "project"
  /\ job.title # ""
  /\ result.relevance_score.num * 2 = result.relevance_score.den

\* C15: the category component awards 10 points when the category is
\* 'technical' and the lowercased job title contains one of engineer /
\* developer / programmer / architect, 10 points when the category is
\* 'leadership' and the title contains one of lead / manager / director /
\* senior / principal, a flat 5 points whenever the category is 'project'
\* whatever the job title is, and 0 points in every other case.
C15_CategoryRule ==
  scored =>
    components.category_points =
      components.scale *
        (IF /\ achievement.category = "technical"
            /\ \E w \in { "engineer", "developer", "programmer", "architect" } :
                 IsSubstring(w, Lower(job.title))
         THEN 10
         ELSE IF /\ achievement.category = "leadership"
                 /\ \E w \in { "lead", "manager", "director", "senior",
                               "principal" } :
                      IsSubstring(w, Lower(job.title))
         THEN 10
         ELSE IF achievement.category = "project" THEN 5
         ELSE 0)

\* The component a reason speaks for.
ComponentOf(reason) ==
  CASE reason.kind = "required skills" -> "required"
    [] reason.kind = "preferred skills" -> "preferred"
    [] reason.kind = "job keywords" -> "keywords"
    [] reason.kind \in { "technical", "leadership", "project" } -> "category"
    [] OTHER -> "default"

\* C16: the reasons list is non-empty: it holds one reason for each
\* component that earned points, in the order required skills, preferred
\* skills, keywords, category, and it holds the default low-confidence
\* reason, as its only entry, exactly when no component earned any points
\* (relevance_score = 0).
C16_ReasonsFollowComponents ==
  scored =>
    LET earned ==
          (IF components.required_points > 0 THEN <<"required">> ELSE <<>>)
          \o (IF components.preferred_points > 0
              THEN <<"preferred">> ELSE <<>>)
          \o (IF components.keyword_points > 0 THEN <<"keywords">> ELSE <<>>)
          \o (IF components.category_points > 0
              THEN <<"category">> ELSE <<>>)
        given == [i \in 1..Len(result.reasons) |->
                    ComponentOf(result.reasons[i])]
    IN  /\ result.reasons # <<>>
        /\ earned # <<>> => given = earned
        /\ earned = <<>> <=> given = <<"default">>
        /\ earned = <<>> <=> result.relevance_score.num = 0
        /\ \A i \in 1..Len(given) : given[i] = "default" => Len(given) = 1

\* All four components earned points and gave their reasons.
C16_Witness ==
  /\ scored
  /\ Len(result.reasons) = 4
  /\ components.required_points > 0
  /\ components.preferred_points > 0
  /\ components.keyword_points > 0
  /\ components.category_points > 0

\* C17: if an achievement has a skill that equals, without regard to case,
\* one of the job's required skills, its MatchResult has relevance_score > 0
\* and a non-empty matched_skills, and every entry of matched_skills is a
\* skill of that achievement that equals a job skill.
C17_MatchedSkillsAreShared ==
  (scored /\ EqualSkills(achievement.skills, job.skills_required) # {}) =>
    /\ result.relevance_score.num > 0
    /\ result.matched_skills # <<>>
    /\ \A k \in 1..Len(result.matched_skills) :
         \E pr \in EqualSkills(achievement.skills, job.skills_required) :
           Lower(result.matched_skills[k]) = Lower(achievement.skills[pr[1]])

\* The achievement lists python, AWS and Docker, the job requires Python
\* and AWS: two of the three are matched.
C17_Witness ==
  /\ scored
  /\ achievement.skills = << "python", "AWS", "Docker" >>
  /\ job.skills_required = << "Python", "AWS" >>
  /\ result.matched_skills = << "python", "aws" >>
  /\ result.relevance_score.num > 0

----------------------------------------------------------------------------
(* Properties of the auxiliary operations *)

\* The distinct skills of a job's list, and those of them that equal,
\* without regard to case, a skill of an achievement among the results.
DistinctSkills(list) == { Lower(list[i]) : i \in 1..Len(list) }

HeldSkills(list) ==
  { sk \in DistinctSkills(list) :
      \E k \in 1..Len(matches) :
        \E j \in 1..Len(matches[k].achievement.skills) :
          Lower(matches[k].achievement.skills[j]) = sk }

\* percent, in hundredths, is 100 * hits / total rounded to 2 decimals.
IsPercentage(percent, hits, total) ==
  /\ 2 * (percent * total - 10000 * hits) <= total
  /\ 2 * (10000 * hits - percent * total) <= total

\* C18: get_coverage_report computes, for the job's required skills and
\* for its preferred skills alike, the percentage of the distinct skills
\* of that list that equal (without regard to case) a skill of at least
\* one achievement among the given match results, and it lists as missing
\* exactly the skills of that list that no achievement matched.
C18_CoverageOfBothLists ==
  report.some =>
    /\ job.skills_required # <<>> =>
         IsPercentage(report.val.required_skills_coverage,
                      Cardinality(HeldSkills(job.skills_required)),
                      Cardinality(DistinctSkills(job.skills_required)))
    /\ report.val.missing_required_skills =
         DistinctSkills(job.skills_required)
           \ HeldSkills(job.skills_required)
    /\ job.skills_preferred # <<>> =>
         IsPercentage(report.val.preferred_skills_coverage,
                      Cardinality(HeldSkills(job.skills_preferred)),
                      Cardinality(DistinctSkills(job.skills_preferred)))
    /\ report.val.missing_preferred_skills =
         DistinctSkills(job.skills_preferred)
           \ HeldSkills(job.skills_preferred)

\* C20: match_achievements_to_job, filter_by_threshold, group_by_category
\* and get_coverage_report only read their arguments: in every step the
\* achievements and the job record are left as they were, and so is the
\* list of MatchResults once it was returned.
C20_ArgumentsOnlyRead ==
  [][ /\ achievements' = achievements
      /\ job' = job
      /\ matched => matches' = matches ]_vars

\* All four operations were called on two results, and the filter kept
\* only one of them in the list it returned.
C20_Witness ==
  /\ matched
  /\ Len(matches) = 2
  /\ filtered.some
  /\ Len(filtered.val) = 1
  /\ grouped.some
  /\ report.some

----------------------------------------------------------------------------
(* Properties of concurrent calls *)

\* What call t returns when it runs alone, on a fresh JobParser.
Alone(t) ==
  CASE t \in { "parse1", "parse2" } ->
         parse(_load_common_skills, TextOf(t, text), t, "", "Acme")
    [] t = "match" -> match_achievements_to_job(achievements, job, {})
    [] t = "analyze" -> analyze(job_keywords, document_text, job_skills)

----------------------------------------------------------------------------
(* Properties of the format check *)

\* C22: check_ats_friendly_format reports is_ats_friendly exactly when its
\* issues list is empty, i.e. exactly when the text has no non-ASCII
\* character, no tab character and at most 50 non-standard punctuation
\* characters; found_standard_sections and missing_standard_sections
\* partition the four headings, and a missing heading never makes the text
\* unfriendly.
C22_FriendlyIffNoIssue ==
  format_check.some =>
    LET r == format_check.val
        hazard ==
          \/ NonAsciiCount(text) > 0
          \/ \E i \in 1..Len(text) : text[i] = "\t"
          \/ special_char_count(text) > 50
    IN /\ r.is_ats_friendly <=> r.issues = <<>>
       /\ r.is_ats_friendly <=> ~hazard
       /\ \A i \in 1..4 :
            LET h == standard_sections[i]
            IN /\ Member(h, r.found_standard_sections)
                    <=> ~Member(h, r.missing_standard_sections)
               /\ Member(h, r.found_standard_sections) <=> InText(h, text)
       /\ Len(r.found_standard_sections) + Len(r.missing_standard_sections)
            = 4

\* A text of exactly 50 '#' characters and no heading was checked.
C22_Witness ==
  /\ format_check.some
  /\ special_char_count(text) = 50
  /\ Len(format_check.val.missing_standard_sections) = 4
  /\ format_check.val.is_ats_friendly

----------------------------------------------------------------------------
(* Properties of top_n *)

\* C23: called with top_n = k, match_achievements_to_job returns the first
\* min(k, n) entries of the sorted list of its n results, for every integer
\* k >= 0; only top_n = None returns all results.
C23_TopNReturnsFirstK ==
  matched =>
    LET all == match_achievements_to_job(achievements, job, {})
    IN IF top_n = {}
         THEN matches = all
         ELSE \A k \in top_n :
                /\ Len(matches) = Min(k, Len(all))
                /\ matches = SubSeq(all, 1, Min(k, Len(all)))

----------------------------------------------------------------------------
(* Properties of the achievement library *)

\* The last element of a non-empty list.
Last(list) == list[Len(list)]

\* How often position i is among the results of a search.
Occurrences(results, i) ==
  Cardinality({ k \in 1..Len(results) : results[k] = i })

C28_ReloadYieldsSameLibrary ==
  reloaded.some =>
    /\ ~reloaded.val.raised
    /\ reloaded.val.profile = library.val.profile
    /\ reloaded.val.achievements = library.val.achievements

----------------------------------------------------------------------------
(* Properties of the section's span and of its bullets *)

\* The text after the first heading match of section s.
RemainingText(t, s) == SubSeq(t, Search(SECTION_PATTERNS[s], t) + 1, Len(t))

\* C25: the items of a section come only from text before the start of the
\* nearest following heading match; when a heading match begins at offset 0
\* of the remaining text, the span is empty and _extract_section returns an
\* empty list.
C25_SpanEndsAtNearestHeading ==
  (/\ section_type \in DOMAIN SECTION_PATTERNS
   /\ Search(SECTION_PATTERNS[section_type], text) > 0) =>
    LET remaining == RemainingText(text, section_type)
        nearest == NextSection(remaining)
    IN /\ nearest.found =>
            items = ExtractItems(SubSeq(remaining, 1, nearest.start))
       /\ (nearest.found /\ nearest.start = 0) => items = <<>>

\* The marker kinds the specification names: dash, bullet glyph, numbered.
NamedMarkers == { "-", "\\u2022", "1." }

\* The line begins, after optional indentation, with a named marker and
\* whitespace, and its trimmed remainder is longer than 10 characters.
Qualifies(ln) ==
  LET l == LStrip(ln)
  IN /\ Len(l) >= 3
     /\ l[1] \in NamedMarkers
     /\ IsWS(l[2])
     /\ TextLen(Strip(SubSeq(l, 3, Len(l)))) > 10

\* The trimmed remainder of a qualifying line.
Remainder(ln) == Strip(SubSeq(LStrip(ln), 3, Len(LStrip(ln))))

\* C26: within a section's span, every line that begins (after optional
\* indentation) with a dash, the bullet glyph or a numbered-list marker
\* followed by whitespace, and whose remainder has trimmed length > 10, is
\* returned as an item consisting of that remainder (as far as the 15-item
\* cap does not cut the list).
C26_MarkedLinesAreItems ==
  (/\ section_type \in DOMAIN SECTION_PATTERNS
   /\ Search(SECTION_PATTERNS[section_type], text) > 0) =>
    LET span == SectionText(text, section_type)
        lines == Split(span)
    IN Len(KeepBullets(FindBullets(span, 1))) <= MaxItems =>
         \A i \in 1..Len(lines) :
           Qualifies(lines[i]) => Member(Remainder(lines[i]), items)

\* C27: _extract_section uses the line fallback exactly when the span holds
\* zero bullet-style lines; when it holds at least one, no item is produced
\* by the fallback, also when all its bullets are too short to be kept.
C27_FallbackOnlyWithoutBullets ==
  (/\ section_type \in DOMAIN SECTION_PATTERNS
   /\ Search(SECTION_PATTERNS[section_type], text) > 0) =>
    LET span == SectionText(text, section_type)
        bullets == FindBullets(span, 1)
    IN items = IF bullets = <<>>
                 THEN Take(KeepLines(Split(span)), MaxItems)
                 ELSE Take(KeepBullets(bullets), MaxItems)

----------------------------------------------------------------------------
(* Properties of the application tracker *)

\* C29: in every state reachable by any interleaving of create_application,
\* update_application, add_event and delete_application calls, each row of
\* application_events has an application_id that refers to an existing row
\* of applications.
C29_EventsReferToApplications ==
  \A e \in application_events :
    \E a \in applications : a.id = e.application_id

----------------------------------------------------------------------------
(* Properties of the coverage report's tiers *)

\* C30: in the report of get_coverage_report, required_skills_coverage is
\* 100 exactly when missing_required_skills is empty, and the lowest-tier
\* recommendation is returned only when at least one required skill is
\* missing, for every job, also one with no required skills.
C30_FullCoverageIffNothingMissing ==
  report.some =>
    /\ report.val.required_skills_coverage = 100 * 100
         <=> report.val.missing_required_skills = {}
    /\ report.val.recommendation.kind = "low"
         => report.val.missing_required_skills # {}

====
